---- MODULE Spec2Model ----
(***************************************************************************)
(* Checkout Transaction Engine of nestjs-go-benchmark: the Go handler      *)
(* (src/golang/checkout.go) as a state machine.  Every request is a        *)
(* process whose steps are the cache calls and SQL statements of           *)
(* processCheckout / executeCheckoutTransaction; the relational store is   *)
(* modelled with READ COMMITTED row locks and per-transaction write sets   *)
(* that become visible at COMMIT; the cache is modelled key by key.        *)
(* Money is held in integer cents.                                         *)
(***************************************************************************)
EXTENDS Integers, Sequences, FiniteSets, TLC

\* ------------------------------------------------------------------ universe
Reqs == {"r1", "r2"}
Users == {"u1", "u2"}
Carts == {"c1", "c2", "c3", "c4", "c5", "c6", "c7", "c8"}
Products == {"pA", "pB"}
Coupons == {"WELCOME10", "FLAT100"}
PaymentRefs == {"pay1", "pay2"}

\* the requests are numbered in the order they arrive
RequestOrder == [r \in Reqs |-> IF r = "r1" THEN 1 ELSE 2]

\* the (userId, cartId) pairs of the request bodies: the owner's own carts, another
\* user's cart, an empty cart
Bodies == {<<"u1", "c1">>, <<"u1", "c3">>, <<"u2", "c2">>, <<"u2", "c1">>, <<"u2", "c4">>}

\* an items list as clients send it along with the cart id
ItemsSent == << [productId |-> "pA", qty |-> 1] >>

\* the request bodies clients send; a coupon code comes with the bodies that
\* reach the coupon step
AllInputs ==
  {in \in [userID : Users, cartID : Carts, items : {ItemsSent}, coupon : {"WELCOME10", ""},
           paymentRef : PaymentRefs] :
     /\ <<in.userID, in.cartID>> \in Bodies
     /\ in.coupon # "" =>
          <<in.userID, in.cartID>> \in {<<"u1", "c1">>, <<"u1", "c3">>, <<"u2", "c2">>}}

\* the calls that can fail: the cache calls of processCheckout and postCommitRedisOps,
\* and the statements of the transaction
CacheCalls ==
  {"Get", "Incr", "Expire", "SetNX", "SetEx", "Del", "Keys", "DelKeys", "ZIncrBy", "XAdd"}
StoreCalls == {"Begin", "Query", "Exec", "Commit"}

\* the failures of the checkout path proper: everything but the calls whose result
\* the handler never looks at before it answers
FanoutCalls == {"Keys", "DelKeys", "ZIncrBy", "XAdd"}
CoreFaults == (CacheCalls \ ({"Expire"} \cup FanoutCalls)) \cup StoreCalls

\* the clock is the wall-clock minute; it advances at most up to MaxMinute
MaxMinute == 1
Minutes == 0..MaxMinute

NoCoupon == ""
NoReq == "none"

\* error messages of checkout.go (the error identity is the message)
ErrRateLimited == "Rate limit exceeded"
ErrLockDenied == "Checkout in progress"
ErrCartInvalid == "Cart not found or not open"
ErrCartEmpty == "Cart is empty"
ErrCouponInvalid == "Invalid or expired coupon"
ErrCouponUsed == "Coupon already used"
ErrInsufficient == "Insufficient inventory"
\* any error handed up unchanged from the store or cache client
ErrStore == "store error"
\* the answer of Checkout to a body without items
ErrItemsRequired == "items are required"

\* NewCheckoutHandler: region -> warehouse
WhEast == "11111111"
WhWest == "22222222"
WhEu == "33333333"
WhAp == "44444444"
Warehouses == {WhEast, WhWest, WhEu, WhAp}
MappedRegions == {"us-east", "us-west", "eu-west", "ap-southeast"}

warehouseByRegion(region) ==
  CASE region = "us-east" -> WhEast
    [] region = "us-west" -> WhWest
    [] region = "eu-west" -> WhEu
    [] region = "ap-southeast" -> WhAp

\* ------------------------------------------------------------------ constants of the handler
RateLimit == 10

\* ------------------------------------------------------------------ initial store contents
\* users.region as the runs find it unless they say otherwise: one user in a
\* mapped region, one in a region the handler has no warehouse for
SeededRegion == [u \in Users |-> IF u = "u1" THEN "us-east" ELSE "moon-base"]

\* carts.user_id
CartOwner == [c \in Carts |-> IF c \in {"c2", "c4"} THEN "u2" ELSE "u1"]

\* money is counted in hundredths of a cent: a float64 amount of the handler may
\* have a fraction of a cent (a percentage of a price), a DECIMAL(10,2) column
\* holds whole cents
Cent == 100

\* cart_items joined with products, in the order the query returns them
CartItemRows ==
  [c \in Carts |->
     CASE c = "c1" -> << [product_id |-> "pA", qty |-> 2, unit_price |-> 2000 * Cent],
                         [product_id |-> "pB", qty |-> 1, unit_price |-> 1500 * Cent] >>
       [] c = "c2" -> << [product_id |-> "pB", qty |-> 1, unit_price |-> 1500 * Cent],
                         [product_id |-> "pA", qty |-> 1, unit_price |-> 2000 * Cent] >>
       [] c = "c3" -> << [product_id |-> "pA", qty |-> 2, unit_price |-> 2000 * Cent] >>
       [] c = "c5" -> << [product_id |-> "pA", qty |-> 1, unit_price |-> 1999 * Cent] >>
       [] c = "c6" -> << [product_id |-> "pA", qty |-> 1, unit_price |-> 10000 * Cent] >>
       [] c = "c7" -> << [product_id |-> "pA", qty |-> 1, unit_price |-> 10001 * Cent] >>
       [] c = "c8" -> << [product_id |-> "pA", qty |-> 1, unit_price |-> 725 * Cent] >>
       [] OTHER -> << >>]

\* the requests whose calls to the cache and to the store may fail in a run
FaultyReqs == {"r2"}

\* coupons.max_uses of the coupon rows
MaxUses == 2

\* the users who redeemed the coupon before the run when its used_count starts
\* at used: u1 is one of them, the others send no request in the run
PriorRedeemers(used) == IF used = 0 THEN {} ELSE {"u1"}

InitUsage(prior) ==
  [k \in Users \X Coupons |-> IF k[1] \in prior THEN 1 ELSE 0]

\* a 10% coupon and a coupon of 100.00 off, seeded to start now and to end a
\* year later: the window covers every minute of a run
InitCoupons(used) ==
  [k \in Coupons |->
     IF k = "WELCOME10"
     THEN [type |-> "percentage", value |-> 10, max_uses |-> MaxUses, used_count |-> used,
           starts_at |-> 0, ends_at |-> MaxMinute]
     ELSE [type |-> "fixed", value |-> 100, max_uses |-> MaxUses, used_count |-> used,
           starts_at |-> 0, ends_at |-> MaxMinute]]

\* a coupon code no row of the coupons table carries
NoSuchCoupon == "BOGUS"

\* inventory rows exist at the us-east and the us-west warehouse
InvRows == Products \X {WhEast, WhWest}

AvailA == 4
AvailB == 2
ReservedB == 1

InitInventory ==
  [row \in InvRows |->
     IF row[1] = "pA" THEN [available_qty |-> AvailA, reserved_qty |-> 0]
     ELSE [available_qty |-> AvailB, reserved_qty |-> ReservedB]]

\* ------------------------------------------------------------------ state
VARIABLES
  env,         \* the run's surroundings: the bodies clients send, the calls that may fail
  pc,          \* position of each request in processCheckout
  req,         \* the CheckoutRequest of each request
  loc,         \* locals of processCheckout / executeCheckoutTransaction
  result,      \* what processCheckout returns
  tx,          \* the open transaction of each request: row locks and write set
  minute,      \* time.Now().Unix() / 60
  idem,        \* cache: idem:checkout:<paymentRef>
  rl,          \* cache: rl:user:<userID>:checkout:<minute>
  rlTTL,       \* cache: whether the rate-limit key carries an expiry
  lock,        \* cache: lock:checkout:<userID> (the value is "1"; held here as the request that set it)
  summary,     \* cache: whether a key cache:user:<userID>:summary:* exists
  summaryVal,  \* cache: the value under the summary key, read while the key exists
  ov,          \* position and locals of each user's GetUserOverview request
  leaderboard, \* cache: leaderboard:top_buyers
  stream,      \* cache: stream:order_events
  carts,       \* carts.status
  coupons,     \* coupons
  usage,       \* user_coupon_usage.used_count, 0 when there is no row
  inventory,   \* inventory
  orders,      \* orders
  order_items, \* order_items
  events       \* events

redisVars == <<idem, rl, rlTTL, lock, summary, leaderboard, stream>>
dbVars == <<carts, coupons, usage, inventory, orders, order_items, events>>
procVars == <<pc, req, loc, result, tx>>
ovVars == <<summaryVal, ov>>
vars == <<env, procVars, minute, redisVars, dbVars, ovVars>>

\* users.region, a column no handler writes
UserRegion == env.region

\* ------------------------------------------------------------------ pure helpers
RECURSIVE SumSubtotal(_)
\* subtotal += float64(item.Qty) * item.UnitPrice over the loaded items
SumSubtotal(items) ==
  IF items = << >> THEN 0
  ELSE Head(items).qty * Head(items).unit_price + SumSubtotal(Tail(items))

\* Go's int(x) of x/100: truncation towards zero
TruncDiv100(x) == IF x >= 0 THEN x \div 100 ELSE -((-x) \div 100)

\* the amounts of whole cents up to 200.00 for which the float64 product
\* amount*0.08*100 falls just below the whole number of cents it stands for
\* (7.25*0.08*100 is 57.99999999999999), so that int() loses a cent
FloatShortfall ==
  {c * Cent : c \in {725, 1450, 2900, 5125, 5175, 5800, 10250, 10350, 10975, 11600, 12225}}

\* an amount as a DECIMAL(10,2) column stores it: rounded to the cent, half away
\* from zero
Numeric2(x) ==
  IF x >= 0 THEN ((x + Cent \div 2) \div Cent) * Cent
  ELSE -(((-x + Cent \div 2) \div Cent) * Cent)

\* computeTax: float64(int(amount*0.08*100)) / 100, the whole cents of 8% of the
\* amount, for amounts of at most 200.00 either side of zero
computeTax(amount) ==
  LET exact == TruncDiv100(TruncDiv100(amount * 8)) * Cent IN
  IF amount \in FloatShortfall THEN exact - Cent
  ELSE IF -amount \in FloatShortfall THEN exact + Cent
  ELSE exact

\* a shipping that is already free at a subtotal of exactly 100.00
ShippingFreeFrom100(subtotal, itemCount) ==
  IF subtotal >= 10000 * Cent THEN 0 ELSE 599 * Cent + (itemCount - 1) * 99 * Cent

\* computeShipping: free above 100.00, else 5.99 and 0.99 for each further row
computeShipping(subtotal, itemCount) ==
  IF subtotal > 10000 * Cent THEN 0 ELSE 599 * Cent + (itemCount - 1) * 99 * Cent

maxFloat(a, b) == IF a > b THEN a ELSE b

\* a discount that takes the value of every coupon as an amount
CouponAlwaysFixed(coupon, subtotal) == coupon.value * 100 * Cent

\* the discount processCoupon returns: subtotal * (value / 100), which is exact in
\* hundredths of a cent for a subtotal of whole cents, or the value in dollars
CouponDiscount(coupon, subtotal) ==
  IF coupon.type = "percentage" THEN (subtotal * coupon.value) \div 100
  ELSE coupon.value * 100 * Cent

\* 3.5) the amounts of an order (checkout.go:241-248), as the float64 values
PriceOf(items, discount) ==
  LET subtotal == SumSubtotal(items)
      tax == computeTax(subtotal - discount)
      shipping == computeShipping(subtotal, Len(items)) IN
  [subtotal |-> subtotal, discount |-> discount, tax |-> tax, shipping |-> shipping,
   total |-> maxFloat(0, subtotal - discount + tax + shipping)]

\* json.Marshal(CheckoutResponse): the fields in declaration order
Marshal(resp) == << resp.orderId, resp.status, resp.total >>

\* a decoder that drops the total of the stored response
UnmarshalLosingTotal(s) == [orderId |-> s[1], status |-> s[2], total |-> 0]

\* json.Unmarshal into a CheckoutResponse
Unmarshal(s) == [orderId |-> s[1], status |-> s[2], total |-> s[3]]

\* the cached value of a key that does not exist
NoValue == << >>

\* GetUserOverview before its first step: no request in flight, nothing read
NoOverview == [pc |-> "idle", served |-> 0, orders |-> {}, cart |-> "", products |-> << >>]

NoResp == [orderId |-> "", status |-> "", total |-> 0]

\* a handler that never finds the stored record
IdemNeverHit(failed, existing) == FALSE

\* ------------------------------------------------------------------ decisions of the handler
\* checkout.go:121  err == nil && existing != ""
IdemHit(failed, existing) == ~failed /\ existing # NoValue

\* a SET without NX: the key is written whether or not it exists
LockAlwaysFree(holder) == TRUE

\* checkout.go:143  SetNX sets the key only if it does not exist
LockFree(holder) == holder = NoReq

\* a limiter that already rejects the tenth request of a minute
RateExceededAtLimit(count) == count >= RateLimit

\* checkout.go:137  count > 10
RateExceeded(count) == count > RateLimit

\* a handler that never looks at the status of the cart
CartStatusIgnored(status) == FALSE

\* checkout.go:183  cartStatus != "open"
CartNotOpen(status) == status # "open"

\* a coupon check that does not look at the validity window
CouponWindowIgnored(coupon, now) == FALSE

\* checkout.go:334  now.Before(coupon.StartsAt) || now.After(coupon.EndsAt)
CouponOutsideWindow(coupon, now) == now < coupon.starts_at \/ now > coupon.ends_at

\* a cap check off by one: the coupon is refused only once the cap is exceeded
CouponOverCap(coupon) == coupon.max_uses # -1 /\ coupon.used_count > coupon.max_uses

\* checkout.go:337  coupon.MaxUses != nil && coupon.UsedCount >= *coupon.MaxUses
\* (a NULL max_uses is held as -1)
CouponAtCap(coupon) == coupon.max_uses # -1 /\ coupon.used_count >= coupon.max_uses

\* a handler that leaves out the per-user usage check
UsageNotChecked(failed, usedCount) == FALSE

\* a per-user check off by one: a second redemption is let through
CouponUsedTwice(failed, usedCount) == ~failed /\ usedCount > 1

\* checkout.go:346  err == nil && usedCount >= 1
CouponAlreadyUsed(failed, usedCount) == ~failed /\ usedCount >= 1

\* a stock check that forgets what is already reserved
StockShortIgnoringReserved(inv, qty) == inv.available_qty < qty

\* checkout.go:414  availableQty-reservedQty < item.Qty
StockShort(inv, qty) == inv.available_qty - inv.reserved_qty < qty

\* a handler that stores a response under the payment ref after a failure too
AlwaysStore(failed) == "idemput"

\* a handler that returns on a failed transaction without releasing the lock
SkipRelease(failed) == IF failed THEN "done" ELSE "idemput"

\* a handler that releases the lock right after the fan-out, storing nothing
SkipStore(failed) == "release"

\* checkout.go:154-162: where processCheckout goes once the transaction returned
AfterTransaction(failed) == IF failed THEN "release" ELSE "idemput"

\* a lookup that sends every user to the us-east warehouse
WarehouseAlwaysEast(region) == warehouseByRegion("us-east")

\* checkout.go:392: the warehouse of a region, us-east when it is not mapped
WarehouseOf(region) ==
  IF region \in MappedRegions THEN warehouseByRegion(region)
  ELSE warehouseByRegion("us-east")

\* ------------------------------------------------------------------ transactions
\* a row of a table, as the thing a row lock is held on
CartRow(c) == <<"carts", c, "">>
CouponRow(k) == <<"coupons", k, "">>
UsageRow(u, k) == <<"user_coupon_usage", u, k>>
InventoryRow(p, w) == <<"inventory", p, w>>

NoTx ==
  [active |-> FALSE, aborted |-> FALSE, locks |-> {},
   closed |-> {}, redeemed |-> {}, reserved |-> {},
   order |-> {}, items |-> {}, event |-> {}]

\* a row lock (SELECT ... FOR UPDATE) can be taken when no other transaction holds it
RowFree(r, row) == \A o \in Reqs \ {r} : row \notin tx[o].locks

NoLoc ==
  [getErr |-> FALSE, count |-> 0, minute |-> 0, locked |-> FALSE, lockLost |-> FALSE,
   released |-> FALSE, cartItems |-> << >>, discount |-> 0, warehouseID |-> "",
   idx |-> 0, total |-> 0, committed |-> FALSE]

\* a handler that answers 500 to every error
HttpStatusAlwaysServerError(msg) == 500

\* Checkout: the HTTP status of an error of processCheckout, by its message
\* (checkout.go:93-106)
HttpStatus(msg) ==
  CASE msg = ErrRateLimited -> 429
    [] msg = ErrLockDenied -> 409
    [] msg \in {ErrCartInvalid, ErrCartEmpty, ErrCouponInvalid, ErrCouponUsed} -> 400
    [] msg = ErrInsufficient -> 409
    [] OTHER -> 500

\* the statusMap of the TS controller and its lookup, statusMap[error.message] || 500
statusMap ==
  (ErrRateLimited :> 429) @@ (ErrLockDenied :> 409) @@ (ErrCartInvalid :> 400) @@
  (ErrCartEmpty :> 400) @@ (ErrCouponInvalid :> 400) @@ (ErrCouponUsed :> 400) @@
  (ErrInsufficient :> 409)

TsHttpStatus(msg) == IF msg \in DOMAIN statusMap THEN statusMap[msg] ELSE 500

NoResult == [status |-> "none", err |-> "", resp |-> NoResp, http |-> 0]
ErrResult(msg) == [status |-> "err", err |-> msg, resp |-> NoResp, http |-> HttpStatus(msg)]
\* the locals of executeCheckoutTransaction go out of scope when it returns
LeaveTransaction(l) ==
  [l EXCEPT !.cartItems = << >>, !.discount = 0, !.warehouseID = "", !.idx = 0]

\* checkout.go:86-89: a body whose items list is empty is answered 400 by Checkout
Invalid(body) == Len(body.items) = 0
InvalidResult == [status |-> "err", err |-> ErrItemsRequired, resp |-> NoResp, http |-> 400]

\* c.JSON(result) answers 200
OkResult(resp) == [status |-> "ok", err |-> "", resp |-> resp, http |-> 200]

NoRequest ==
  [userID |-> "", cartID |-> "", items |-> << >>, coupon |-> NoCoupon, paymentRef |-> ""]

\* the outcomes of a call made for request r: it fails only in a run where that
\* call may fail and only for the requests the failures of the run hit
MayFail(r, call) ==
  IF r \in env.faulty /\ call \in env.faults THEN BOOLEAN ELSE {FALSE}

\* ------------------------------------------------------------------ initial state
Init ==
  /\ \E used \in 0..MaxUses :
       /\ env = [inputs |-> AllInputs, faults |-> CoreFaults, faulty |-> FaultyReqs,
                used |-> used, attempts |-> 0, region |-> SeededRegion]
       /\ coupons = InitCoupons(used)
       /\ usage = InitUsage(PriorRedeemers(used))
  /\ pc = [r \in Reqs |-> "idle"]
  /\ req = [r \in Reqs |-> NoRequest]
  /\ loc = [r \in Reqs |-> NoLoc]
  /\ result = [r \in Reqs |-> NoResult]
  /\ tx = [r \in Reqs |-> NoTx]
  /\ minute = 0
  /\ idem = [p \in PaymentRefs |-> NoValue]
  /\ rl = [k \in Users \X Minutes |-> 0]
  /\ rlTTL = [k \in Users \X Minutes |-> FALSE]
  /\ lock = [u \in Users |-> NoReq]
  /\ summary = [u \in Users |-> FALSE]
  /\ summaryVal = [u \in Users |-> NoValue]
  /\ ov = [u \in Users |-> NoOverview]
  /\ leaderboard = [u \in Users |-> 0]
  /\ stream = {}
  /\ carts = [c \in Carts |-> "open"]
  /\ inventory = InitInventory
  /\ orders = {}
  /\ order_items = {}
  /\ events = {}

\* ------------------------------------------------------------------ processCheckout, before the transaction
\* a request arrives: Checkout answers a body without items itself and hands
\* every other parsed body to processCheckout
Start(r) ==
  /\ pc[r] = "idle"
  /\ \A o \in Reqs : RequestOrder[o] < RequestOrder[r] => pc[o] # "idle"
  /\ \E in \in env.inputs :
       \* payment references are opaque: the first request's is called pay1
       /\ RequestOrder[r] = 1 => in.paymentRef = "pay1"
       /\ req' = [req EXCEPT ![r] = in]
       /\ IF Invalid(in)
          THEN /\ result' = [result EXCEPT ![r] = InvalidResult]
               /\ pc' = [pc EXCEPT ![r] = "done"]
          ELSE /\ pc' = [pc EXCEPT ![r] = "get"]
               /\ UNCHANGED result
  /\ UNCHANGED <<env, ovVars, loc, tx, minute, redisVars, dbVars>>

\* a handler that returns the error of the Get to the caller
GetErrorReturned(r) ==
  /\ result' = [result EXCEPT ![r] = ErrResult(ErrStore)]
  /\ pc' = [pc EXCEPT ![r] = "done"]
  /\ loc' = [loc EXCEPT ![r].getErr = TRUE]

\* checkout.go:120-125: with err != nil the condition of the hit is false and
\* the handler goes on to the rate limit; err is held until the Incr assigns it
OnGetError(r) ==
  /\ pc' = [pc EXCEPT ![r] = "incr"]
  /\ loc' = [loc EXCEPT ![r].getErr = TRUE]
  /\ UNCHANGED result

\* 0) h.rdb.Get(idempotencyKey): a hit returns the stored response
IdemGet(r) ==
  /\ pc[r] = "get"
  /\ \E failed \in MayFail(r, "Get") :
       /\ IF IdemHit(failed, idem[req[r].paymentRef])
          THEN /\ result' = [result EXCEPT ![r] = OkResult(Unmarshal(idem[req[r].paymentRef]))]
               /\ pc' = [pc EXCEPT ![r] = "done"]
               /\ UNCHANGED loc
          ELSE IF failed
               THEN OnGetError(r)
               ELSE /\ pc' = [pc EXCEPT ![r] = "incr"]
                    /\ UNCHANGED <<loc, result>>
  /\ UNCHANGED <<env, ovVars, req, tx, minute, redisVars, dbVars>>

\* a handler that registers the deferred Del before it looks at the answer of
\* the SetNX
ReleaseAfterRejection(msg) == IF msg = ErrLockDenied THEN "release" ELSE "done"

\* checkout.go:137-139, 147-150: a rejection returns at once, before the Del of
\* the lock is deferred
AfterRejection(msg) == "done"

\* a limiter that does not count the attempts it rejects
IncrUndoneOnRejection(n) == IF RateExceeded(n + 1) THEN n ELSE n + 1

\* the value of the counter key after INCR; nothing in the handler lowers it
Incr(n) == n + 1

\* 1) h.rdb.Incr(rlKey) on the key of the current minute
RateIncr(r) ==
  /\ pc[r] = "incr"
  /\ LET key == <<req[r].userID, minute>> IN
     \E failed \in MayFail(r, "Incr") :
       IF failed
       THEN /\ result' = [result EXCEPT ![r] = ErrResult(ErrStore)]
            /\ pc' = [pc EXCEPT ![r] = "done"]
            /\ loc' = [loc EXCEPT ![r].getErr = FALSE]
            /\ UNCHANGED rl
       ELSE /\ rl' = [rl EXCEPT ![key] = Incr(@)]
            /\ loc' = [loc EXCEPT ![r].getErr = FALSE, ![r].count = rl[key] + 1,
                                  ![r].minute = minute]
            /\ IF rl[key] + 1 = 1
               THEN pc' = [pc EXCEPT ![r] = "expire"] /\ UNCHANGED result
               ELSE IF RateExceeded(rl[key] + 1)
                    THEN /\ result' = [result EXCEPT ![r] = ErrResult(ErrRateLimited)]
                         /\ pc' = [pc EXCEPT ![r] = AfterRejection(ErrRateLimited)]
                    ELSE pc' = [pc EXCEPT ![r] = "setnx"] /\ UNCHANGED result
  /\ UNCHANGED <<env, ovVars, req, tx, minute, idem, rlTTL, lock, summary, leaderboard, stream, dbVars>>

\* h.rdb.Expire(rlKey, 90s) after the first increment; its error is dropped
RateExpire(r) ==
  /\ pc[r] = "expire"
  /\ \E failed \in MayFail(r, "Expire") :
       rlTTL' = [rlTTL EXCEPT ![<<req[r].userID, loc[r].minute>>] = @ \/ ~failed]
  /\ IF RateExceeded(loc[r].count)
     THEN /\ result' = [result EXCEPT ![r] = ErrResult(ErrRateLimited)]
          /\ pc' = [pc EXCEPT ![r] = AfterRejection(ErrRateLimited)]
     ELSE pc' = [pc EXCEPT ![r] = "setnx"] /\ UNCHANGED result
  /\ UNCHANGED <<env, ovVars, req, loc, tx, minute, idem, rl, lock, summary, leaderboard, stream, dbVars>>

\* 2) h.rdb.SetNX(lockKey, "1", 5s); on success the deferred Del is registered
LockAcquire(r) ==
  /\ pc[r] = "setnx"
  /\ \E failed \in MayFail(r, "SetNX") :
       IF failed
       THEN /\ result' = [result EXCEPT ![r] = ErrResult(ErrStore)]
            /\ pc' = [pc EXCEPT ![r] = "done"]
            /\ UNCHANGED <<lock, loc>>
       ELSE IF ~LockFree(lock[req[r].userID])
            THEN /\ result' = [result EXCEPT ![r] = ErrResult(ErrLockDenied)]
                 /\ pc' = [pc EXCEPT ![r] = AfterRejection(ErrLockDenied)]
                 /\ UNCHANGED <<lock, loc>>
            ELSE /\ lock' = [lock EXCEPT ![req[r].userID] = r]
                 /\ loc' = [loc EXCEPT ![r].locked = TRUE]
                 /\ pc' = [pc EXCEPT ![r] = "begin"]
                 /\ UNCHANGED result
  /\ UNCHANGED <<env, ovVars, req, tx, minute, idem, rl, rlTTL, summary, leaderboard, stream, dbVars>>

\* a transaction whose failure is recorded but followed by the fan-out
FailThenFanout(r, msg) ==
  /\ result' = [result EXCEPT ![r] = ErrResult(msg)]
  /\ pc' = [pc EXCEPT ![r] = "postcommit"]

\* ------------------------------------------------------------------ executeCheckoutTransaction
\* a step of the transaction fails with msg: executeCheckoutTransaction returns,
\* and its deferred tx.Rollback runs next
Fail(r, msg) ==
  /\ result' = [result EXCEPT ![r] = ErrResult(msg)]
  /\ pc' = [pc EXCEPT ![r] = "rollback"]

\* tx, err := h.db.Begin(ctx)
TxBegin(r) ==
  /\ pc[r] = "begin"
  /\ \E failed \in MayFail(r, "Begin") :
       IF failed
       THEN /\ result' = [result EXCEPT ![r] = ErrResult(ErrStore)]
            /\ pc' = [pc EXCEPT ![r] = AfterTransaction(TRUE)]
            /\ UNCHANGED tx
       ELSE /\ tx' = [tx EXCEPT ![r] = [NoTx EXCEPT !.active = TRUE]]
            /\ pc' = [pc EXCEPT ![r] = "cart"]
            /\ UNCHANGED result
  /\ UNCHANGED <<env, ovVars, req, loc, minute, redisVars, dbVars>>

\* a cart query that leaves out the user_id condition
CartRowOfAnyUser(c, u) == TRUE

\* whether the carts table has a row WHERE id = c AND user_id = u
CartRowOf(c, u) == CartOwner[c] = u

\* 3.1) SELECT id, status FROM carts WHERE id = $1 AND user_id = $2 FOR UPDATE
SelectCart(r) ==
  /\ pc[r] = "cart"
  /\ LET c == req[r].cartID IN
     \/ \* the query fails: err != nil
        /\ TRUE \in MayFail(r, "Query") /\ Fail(r, ErrCartInvalid)
        /\ UNCHANGED tx
     \/ \* no row for (cartID, userID): Scan returns ErrNoRows
        /\ ~CartRowOf(c, req[r].userID)
        /\ Fail(r, ErrCartInvalid)
        /\ UNCHANGED tx
     \/ \* the row is locked, then its status is looked at
        /\ CartRowOf(c, req[r].userID)
        /\ RowFree(r, CartRow(c))
        /\ tx' = [tx EXCEPT ![r].locks = @ \cup {CartRow(c)}]
        /\ IF CartNotOpen(carts[c])
           THEN Fail(r, ErrCartInvalid)
           ELSE pc' = [pc EXCEPT ![r] = "items"] /\ UNCHANGED result
  /\ UNCHANGED <<env, ovVars, req, loc, minute, redisVars, dbVars>>

\* a handler that takes the items of the order from the body, at the price of
\* the first product
ItemsOfBody(body) ==
  [i \in 1..Len(body.items) |->
     [product_id |-> body.items[i].productId, qty |-> body.items[i].qty,
      unit_price |-> 2000 * Cent]]

\* checkout.go:187-214: the items of the order are the rows of cart_items of the
\* cart of the body
LoadedItems(body) == CartItemRows[body.cartID]

\* 3.2) SELECT ... FROM cart_items ci JOIN products p ... WHERE ci.cart_id = $1
LoadItems(r) ==
  /\ pc[r] = "items"
  /\ \/ /\ TRUE \in MayFail(r, "Query") /\ Fail(r, ErrStore)
        /\ UNCHANGED <<tx, loc>>
     \/ /\ UNCHANGED tx
        /\ loc' = [loc EXCEPT ![r].cartItems = LoadedItems(req[r])]
        /\ IF Len(LoadedItems(req[r])) = 0
           THEN Fail(r, ErrCartEmpty)
           ELSE /\ pc' = [pc EXCEPT ![r] =
                            IF req[r].coupon # NoCoupon THEN "coupon" ELSE "warehouse"]
                /\ UNCHANGED result
  /\ UNCHANGED <<env, ovVars, req, minute, redisVars, dbVars>>

\* processCoupon: SELECT ... FROM coupons WHERE code = $1 FOR UPDATE, then the
\* validity window and the cap
SelectCoupon(r) ==
  /\ pc[r] = "coupon"
  /\ LET k == req[r].coupon IN
     \/ \* the query fails
        /\ TRUE \in MayFail(r, "Query") /\ Fail(r, ErrCouponInvalid)
        /\ UNCHANGED tx
     \/ \* no row carries the code: Scan returns ErrNoRows
        /\ k \notin Coupons
        /\ Fail(r, ErrCouponInvalid)
        /\ UNCHANGED tx
     \/ /\ k \in Coupons
        /\ RowFree(r, CouponRow(k))
        /\ tx' = [tx EXCEPT ![r].locks = @ \cup {CouponRow(k)}]
        /\ IF CouponOutsideWindow(coupons[k], minute) \/ CouponAtCap(coupons[k])
           THEN Fail(r, ErrCouponInvalid)
           ELSE pc' = [pc EXCEPT ![r] = "usage"] /\ UNCHANGED result
  /\ UNCHANGED <<env, ovVars, req, loc, minute, redisVars, dbVars>>

\* processCoupon: SELECT used_count FROM user_coupon_usage ... FOR UPDATE.
\* A failed query is not an error here: the code goes on to the INSERT, which the
\* store then refuses because the transaction is aborted.
SelectUsage(r) ==
  /\ pc[r] = "usage"
  /\ LET u == req[r].userID
         k == req[r].coupon IN
     \E failed \in MayFail(r, "Query") :
       /\ (~failed /\ usage[<<u, k>>] > 0) => RowFree(r, UsageRow(u, k))
       /\ tx' = [tx EXCEPT ![r].aborted = failed,
                           ![r].locks = IF ~failed /\ usage[<<u, k>>] > 0
                                        THEN @ \cup {UsageRow(u, k)} ELSE @]
       /\ IF CouponAlreadyUsed(failed, usage[<<u, k>>])
          THEN Fail(r, ErrCouponUsed)
          ELSE pc' = [pc EXCEPT ![r] = "redeem"] /\ UNCHANGED result
  /\ UNCHANGED <<env, ovVars, req, loc, minute, redisVars, dbVars>>

\* processCoupon: INSERT INTO user_coupon_usage ... ON CONFLICT DO UPDATE, then
\* UPDATE coupons SET used_count = used_count + 1, then the discount
Redeem(r) ==
  /\ pc[r] = "redeem"
  /\ LET u == req[r].userID
         k == req[r].coupon IN
     \/ /\ (tx[r].aborted \/ TRUE \in MayFail(r, "Exec")) /\ Fail(r, ErrStore)
        /\ UNCHANGED <<tx, loc>>
     \/ /\ ~tx[r].aborted
        /\ tx' = [tx EXCEPT ![r].redeemed = @ \cup {<<u, k>>}]
        /\ loc' = [loc EXCEPT ![r].discount =
                     CouponDiscount(coupons[k], SumSubtotal(loc[r].cartItems))]
        /\ pc' = [pc EXCEPT ![r] = "warehouse"]
        /\ UNCHANGED result
  /\ UNCHANGED <<env, ovVars, req, minute, redisVars, dbVars>>

\* getWarehouseForUser: SELECT region FROM users WHERE id = $1; any error gives
\* the us-east warehouse and no error
GetWarehouse(r) ==
  /\ pc[r] = "warehouse"
  /\ \/ /\ tx[r].aborted \/ TRUE \in MayFail(r, "Query")
        /\ tx' = [tx EXCEPT ![r].aborted = TRUE]
        /\ loc' = [loc EXCEPT ![r].warehouseID = warehouseByRegion("us-east"), ![r].idx = 1]
     \/ /\ ~tx[r].aborted
        /\ UNCHANGED tx
        /\ loc' = [loc EXCEPT ![r].warehouseID = WarehouseOf(UserRegion[req[r].userID]),
                              ![r].idx = 1]
  /\ pc' = [pc EXCEPT ![r] = "reserve"]
  /\ UNCHANGED <<env, ovVars, req, result, minute, redisVars, dbVars>>

\* reserveInventory, one item of the loop: SELECT ... FROM inventory ... FOR UPDATE,
\* the stock check, UPDATE inventory SET reserved_qty = reserved_qty + $1
ReserveItem(r) ==
  /\ pc[r] = "reserve"
  /\ LET item == loc[r].cartItems[loc[r].idx]
         row == <<item.product_id, loc[r].warehouseID>> IN
     \/ \* the SELECT fails
        /\ (tx[r].aborted \/ TRUE \in MayFail(r, "Query")) /\ Fail(r, ErrInsufficient)
        /\ UNCHANGED <<tx, loc>>
     \/ \* no inventory row at this warehouse
        /\ ~tx[r].aborted
        /\ row \notin InvRows
        /\ Fail(r, ErrInsufficient)
        /\ UNCHANGED <<tx, loc>>
     \/ /\ ~tx[r].aborted
        /\ row \in InvRows
        /\ RowFree(r, InventoryRow(row[1], row[2]))
        /\ IF StockShort(inventory[row], item.qty)
           THEN /\ Fail(r, ErrInsufficient)
                /\ tx' = [tx EXCEPT ![r].locks = @ \cup {InventoryRow(row[1], row[2])}]
                /\ UNCHANGED loc
           ELSE \/ \* the UPDATE fails
                   /\ TRUE \in MayFail(r, "Exec") /\ Fail(r, ErrStore)
                   /\ tx' = [tx EXCEPT ![r].locks = @ \cup {InventoryRow(row[1], row[2])}]
                   /\ UNCHANGED loc
                \/ /\ tx' = [tx EXCEPT ![r].locks = @ \cup {InventoryRow(row[1], row[2])},
                                       ![r].reserved = @ \cup {<<row[1], row[2], item.qty>>}]
                   /\ loc' = [loc EXCEPT ![r].idx = @ + 1]
                   /\ pc' = [pc EXCEPT ![r] =
                               IF loc[r].idx = Len(loc[r].cartItems) THEN "persist" ELSE "reserve"]
                   /\ UNCHANGED result
  /\ UNCHANGED <<env, ovVars, req, minute, redisVars, dbVars>>

\* 3.5) - 3.8) totals, INSERT INTO orders, INSERT INTO order_items per item,
\* UPDATE carts SET status = 'closed', INSERT INTO events; orderID is the uuid
\* of this request
Persist(r) ==
  /\ pc[r] = "persist"
  /\ LET items == loc[r].cartItems
         price == PriceOf(items, loc[r].discount)
         subtotal == price.subtotal
         discount == price.discount
         tax == price.tax
         shipping == price.shipping
         total == price.total IN
     \/ /\ TRUE \in MayFail(r, "Exec") /\ Fail(r, ErrStore)
        /\ UNCHANGED <<tx, loc>>
     \/ /\ ~tx[r].aborted
        /\ tx' = [tx EXCEPT
                    ![r].order = {[id |-> r, user_id |-> req[r].userID, status |-> "pending",
                                   subtotal |-> Numeric2(subtotal),
                                   discount |-> Numeric2(discount), tax |-> Numeric2(tax),
                                   shipping |-> Numeric2(shipping), total |-> Numeric2(total)]},
                    ![r].items = {[order_id |-> r, product_id |-> items[i].product_id,
                                   qty |-> items[i].qty, unit_price |-> items[i].unit_price] :
                                     i \in 1..Len(items)},
                    ![r].closed = {req[r].cartID},
                    ![r].event = {[user_id |-> req[r].userID, type |-> "ORDER_CREATED",
                                   orderId |-> r, total |-> total, cartId |-> req[r].cartID]}]
        /\ loc' = [loc EXCEPT ![r].total = total]
        /\ pc' = [pc EXCEPT ![r] = "commit"]
        /\ UNCHANGED result
  /\ UNCHANGED <<env, ovVars, req, minute, redisVars, dbVars>>

\* a redemption that leaves the used_count of the coupon as it is
RedemptionNotCounted(coupon) == coupon

\* UPDATE coupons SET used_count = used_count + 1
CountRedemption(coupon) == [coupon EXCEPT !.used_count = @ + 1]

\* an UPDATE that takes the quantity out of the stock on hand
TakeFromAvailable(inv, qty) == [inv EXCEPT !.available_qty = @ - qty]

\* an UPDATE that reserves one unit whatever the qty of the item
ReserveOneUnit(inv, qty) == [inv EXCEPT !.reserved_qty = @ + 1]

\* UPDATE inventory SET reserved_qty = reserved_qty + $1 on one row
ReserveQty(inv, qty) == [inv EXCEPT !.reserved_qty = @ + qty]

\* the rows of the store once the write set w of a transaction is made durable
ApplyWrites(w) ==
  /\ carts' = [c \in Carts |-> IF c \in w.closed THEN "closed" ELSE carts[c]]
  /\ usage' = [k \in Users \X Coupons |->
                 IF k \in w.redeemed THEN usage[k] + 1 ELSE usage[k]]
  /\ coupons' = [k \in Coupons |->
                   IF \E u \in Users : <<u, k>> \in w.redeemed
                   THEN CountRedemption(coupons[k])
                   ELSE coupons[k]]
  /\ inventory' = [row \in InvRows |->
                     IF \E x \in w.reserved : x[1] = row[1] /\ x[2] = row[2]
                     THEN LET x == CHOOSE x \in w.reserved :
                                      x[1] = row[1] /\ x[2] = row[2]
                          IN ReserveQty(inventory[row], x[3])
                     ELSE inventory[row]]
  /\ orders' = orders \cup w.order
  /\ order_items' = order_items \cup w.items
  /\ events' = events \cup w.event

\* tx.Commit: the write set becomes visible at once and the row locks are dropped
Commit(r) ==
  /\ pc[r] = "commit"
  /\ \/ /\ TRUE \in MayFail(r, "Commit") /\ Fail(r, ErrStore)
        /\ UNCHANGED <<tx, loc, dbVars>>
     \/ /\ ~tx[r].aborted
        /\ ApplyWrites(tx[r])
        /\ tx' = [tx EXCEPT ![r] = NoTx]
        /\ loc' = [loc EXCEPT ![r] = [LeaveTransaction(@) EXCEPT !.committed = TRUE]]
        /\ pc' = [pc EXCEPT ![r] = "postcommit"]
        /\ UNCHANGED result
  /\ UNCHANGED <<env, ovVars, req, minute, redisVars>>

\* a rollback that keeps the writes of the transaction
RollbackKeepsWrites(w) == w

\* the part of a write set that a rollback makes durable: none of it
RolledBack(w) == NoTx

\* defer tx.Rollback(ctx) on a failed return: the write set is dropped, the row
\* locks are released, and processCheckout gets the error
Rollback(r) ==
  /\ pc[r] = "rollback"
  /\ ApplyWrites(RolledBack(tx[r]))
  /\ tx' = [tx EXCEPT ![r] = NoTx]
  /\ loc' = [loc EXCEPT ![r] = LeaveTransaction(@)]
  /\ pc' = [pc EXCEPT ![r] = AfterTransaction(TRUE)]
  /\ UNCHANGED <<env, ovVars, req, result, minute, redisVars>>

\* a fan-out whose failure is returned to the caller
FanoutErrorSurfaces(failed, resp) == IF failed THEN ErrResult(ErrStore) ELSE OkResult(resp)

\* the result of executeCheckoutTransaction once the fan-out has run: the errors
\* of the fan-out calls are dropped (checkout.go:309-315, 435-448)
FanoutOutcome(failed, resp) == OkResult(resp)

\* 4) postCommitRedisOps: Keys on the user's summary keys and Del of the keys
\* found, ZIncrBy on the leaderboard, XAdd on the stream; each call may fail and
\* none of the results is looked at
PostCommit(r) ==
  /\ pc[r] = "postcommit"
  /\ \E kFailed \in MayFail(r, "Keys"), dFailed \in MayFail(r, "DelKeys"),
        zFailed \in MayFail(r, "ZIncrBy"), xFailed \in MayFail(r, "XAdd") :
       /\ summary' = IF kFailed \/ dFailed THEN summary
                     ELSE [summary EXCEPT ![req[r].userID] = FALSE]
       /\ leaderboard' = IF zFailed THEN leaderboard
                         ELSE [leaderboard EXCEPT ![req[r].userID] = @ + loc[r].total]
       /\ stream' = IF xFailed THEN stream
                    ELSE stream \cup {[userId |-> req[r].userID, orderId |-> r,
                                       total |-> loc[r].total]}
       /\ result' = [result EXCEPT ![r] =
                       FanoutOutcome(kFailed \/ dFailed \/ zFailed \/ xFailed,
                                     [orderId |-> r, status |-> "pending",
                                      total |-> loc[r].total])]
  /\ pc' = [pc EXCEPT ![r] = AfterTransaction(FALSE)]
  /\ UNCHANGED <<env, ovVars, req, loc, tx, minute, idem, rl, rlTTL, lock, dbVars>>

\* ------------------------------------------------------------------ processCheckout, after the transaction
\* 5) h.rdb.SetEx(idempotencyKey, json.Marshal(result), 10min); its error is dropped
IdemPut(r) ==
  /\ pc[r] = "idemput"
  /\ \E failed \in MayFail(r, "SetEx") :
       /\ idem' = IF failed THEN idem
                  ELSE [idem EXCEPT ![req[r].paymentRef] =
                          IF result[r].status = "ok" THEN Marshal(result[r].resp)
                          ELSE Marshal(NoResp)]
  /\ pc' = [pc EXCEPT ![r] = "release"]
  /\ UNCHANGED <<env, ovVars, req, loc, result, tx, minute, rl, rlTTL, lock,
                 summary, leaderboard, stream, dbVars>>

\* defer h.rdb.Del(lockKey): the key is deleted whoever set it; its error is dropped
Release(r) ==
  /\ pc[r] = "release"
  /\ \E failed \in MayFail(r, "Del") :
       /\ lock' = IF failed \/ ~loc[r].locked THEN lock
                  ELSE [lock EXCEPT ![req[r].userID] = NoReq]
       /\ loc' = [loc EXCEPT ![r].released = loc[r].locked, ![r].lockLost = FALSE]
  /\ pc' = [pc EXCEPT ![r] = "done"]
  /\ UNCHANGED <<env, ovVars, req, result, tx, minute, idem, rl, rlTTL,
                 summary, leaderboard, stream, dbVars>>

\* a lock key set without an expiration
LockWithoutTTL(holder) == FALSE

\* checkout.go:143  SetNX(lockKey, "1", 5*time.Second): a key that exists is one
\* that expires
LockHasTTL(holder) == holder # NoReq

\* ------------------------------------------------------------------ the cache's expiries and the clock
\* the 5s TTL of a lock key runs out
LockExpire(u) ==
  /\ LockHasTTL(lock[u])
  /\ lock' = [lock EXCEPT ![u] = NoReq]
  /\ loc' = IF pc[lock[u]] = "done" THEN loc
            ELSE [loc EXCEPT ![lock[u]].lockLost = TRUE]
  /\ UNCHANGED <<env, ovVars, pc, req, result, tx, minute, idem, rl, rlTTL, summary, leaderboard, stream, dbVars>>

\* the wall clock reaches the next minute
Tick ==
  /\ minute < MaxMinute
  /\ minute' = minute + 1
  /\ UNCHANGED <<env, ovVars, procVars, redisVars, dbVars>>

\* ------------------------------------------------------------------ specification
Next ==
  \/ \E r \in Reqs :
       \/ Start(r)
       \/ IdemGet(r)
       \/ RateIncr(r)
       \/ RateExpire(r)
       \/ LockAcquire(r)
       \/ TxBegin(r)
       \/ SelectCart(r)
       \/ LoadItems(r)
       \/ SelectCoupon(r)
       \/ SelectUsage(r)
       \/ Redeem(r)
       \/ GetWarehouse(r)
       \/ ReserveItem(r)
       \/ Persist(r)
       \/ Commit(r)
       \/ Rollback(r)
       \/ PostCommit(r)
       \/ IdemPut(r)
       \/ Release(r)
  \/ \E u \in Users : LockExpire(u)

\* the checkout path within one wall-clock minute and within the idempotency TTL
Spec == Init /\ [][Next]_vars

\* one user's attempts across the minute boundary, the user having made up to
\* RateLimit attempts in the current minute already
RateInputs ==
  {in \in AllInputs : in.userID = "u1" /\ in.cartID \in {"c1", "c3"}}

\* the attempts the user has made in the current minute before the run: none, or
\* so many that the requests of the run are numbered around the limit
PriorAttempts == {0} \cup ((RateLimit - 2)..RateLimit)

InitRate ==
  /\ pc = [r \in Reqs |-> "idle"]
  /\ req = [r \in Reqs |-> NoRequest]
  /\ loc = [r \in Reqs |-> NoLoc]
  /\ result = [r \in Reqs |-> NoResult]
  /\ tx = [r \in Reqs |-> NoTx]
  /\ minute = 0
  /\ idem = [p \in PaymentRefs |-> NoValue]
  /\ \E n \in PriorAttempts :
       /\ env = [inputs |-> RateInputs, faults |-> {"Incr"}, faulty |-> Reqs,
                used |-> 0, attempts |-> n, region |-> SeededRegion]
       /\ rl = [k \in Users \X Minutes |-> IF k = <<"u1", 0>> THEN n ELSE 0]
       /\ rlTTL = [k \in Users \X Minutes |-> k = <<"u1", 0>> /\ n > 0]
  /\ lock = [u \in Users |-> NoReq]
  /\ summary = [u \in Users |-> FALSE]
  /\ summaryVal = [u \in Users |-> NoValue]
  /\ ov = [u \in Users |-> NoOverview]
  /\ leaderboard = [u \in Users |-> 0]
  /\ stream = {}
  /\ carts = [c \in Carts |-> "open"]
  /\ coupons = InitCoupons(0)
  /\ usage = InitUsage({})
  /\ inventory = InitInventory
  /\ orders = {}
  /\ order_items = {}
  /\ events = {}

NextRate == Next \/ Tick

SpecRate == InitRate /\ [][NextRate]_vars


\* the state before any request of a run whose surroundings are e, with the
\* summary keys of the users cached or not
InitFrom(e, cached) ==
  /\ env = e
  /\ pc = [r \in Reqs |-> "idle"]
  /\ req = [r \in Reqs |-> NoRequest]
  /\ loc = [r \in Reqs |-> NoLoc]
  /\ result = [r \in Reqs |-> NoResult]
  /\ tx = [r \in Reqs |-> NoTx]
  /\ minute = 0
  /\ idem = [p \in PaymentRefs |-> NoValue]
  /\ rl = [k \in Users \X Minutes |-> 0]
  /\ rlTTL = [k \in Users \X Minutes |-> FALSE]
  /\ lock = [u \in Users |-> NoReq]
  /\ summary = [u \in Users |-> cached]
  /\ summaryVal = [u \in Users |-> NoValue]
  /\ ov = [u \in Users |-> NoOverview]
  /\ leaderboard = [u \in Users |-> 0]
  /\ stream = {}
  /\ carts = [c \in Carts |-> "open"]
  /\ coupons = InitCoupons(e.used)
  /\ usage = InitUsage(PriorRedeemers(e.used))
  /\ inventory = InitInventory
  /\ orders = {}
  /\ order_items = {}
  /\ events = {}

\* the checkout path with a cached summary per user, where for either request
\* the calls of the fan-out may fail and so may the Commit before it
InitFanout ==
  InitFrom([inputs |-> AllInputs, faults |-> FanoutCalls \cup {"Commit"}, faulty |-> Reqs,
            used |-> 0, attempts |-> 0, region |-> SeededRegion], TRUE)

SpecFanout == InitFanout /\ [][Next]_vars

\* the bodies of one user's checkouts of carts whose amounts exercise the pricing:
\* a tax with a fraction of a cent, a subtotal of exactly 100.00 and one just
\* above, a float64 product that falls short, a coupon worth more than the cart.
\* The percentage coupon comes with a cart whose discount is a whole number of
\* cents and with one whose discount is not.
PricingInputs ==
  {in \in [userID : {"u1"}, cartID : {"c1", "c5", "c6", "c7", "c8"}, items : {ItemsSent},
           coupon : Coupons \cup {""}, paymentRef : PaymentRefs] :
     /\ in.coupon = "WELCOME10" => in.cartID \in {"c1", "c5"}
     /\ in.coupon = "FLAT100" => in.cartID \in {"c1", "c7"}}

InitPricing ==
  InitFrom([inputs |-> PricingInputs, faults |-> {}, faulty |-> {},
            used |-> 0, attempts |-> 0, region |-> SeededRegion], FALSE)

SpecPricing == InitPricing /\ [][Next]_vars

\* one user's checkouts where the Del of the lock may fail for either request.
\* The cache expires a key whose time has come, whatever the handlers do; a
\* handler may stop at any step (a crashed holder takes no further step).
InitLock ==
  InitFrom([inputs |-> RateInputs, faults |-> {"Del"}, faulty |-> Reqs,
            used |-> 0, attempts |-> 0, region |-> SeededRegion], FALSE)

SpecLock == InitLock /\ [][Next]_vars /\ \A u \in Users : WF_vars(LockExpire(u))

\* the items lists of the bodies: none, one that names a product of the cart,
\* one that names other quantities and an order the cart does not have
ItemLists ==
  { << >>,
    ItemsSent,
    << [productId |-> "pB", qty |-> 2], [productId |-> "pA", qty |-> 1] >> }

\* bodies that differ in their items lists only: the owner's cart with and
\* without a coupon, another user's cart, an empty cart
ItemsInputs ==
  {in \in [userID : Users, cartID : {"c1", "c4"}, items : ItemLists,
           coupon : {"WELCOME10", ""}, paymentRef : PaymentRefs] :
     /\ <<in.userID, in.cartID>> \in {<<"u1", "c1">>, <<"u2", "c1">>, <<"u2", "c4">>}
     /\ in.coupon # "" => in.userID = "u1"}

InitItems ==
  \E used \in 0..MaxUses :
    InitFrom([inputs |-> ItemsInputs, faults |-> {}, faulty |-> {},
              used |-> used, attempts |-> 0, region |-> SeededRegion], FALSE)

SpecItems == InitItems /\ [][Next]_vars

\* ------------------------------------------------------------------ vocabulary of the claims
Done(r) == pc[r] = "done"
Succeeded(r) == result[r].status = "ok"
Failed(r) == result[r].status = "err"
\* a request answered from the Idempotency Store: a success without a commit of its own
AnsweredFromStore(r) == Done(r) /\ Succeeded(r) /\ ~loc[r].committed
InTransaction(r) == tx[r].active
SameBody(r1, r2) == pc[r1] # "idle" /\ pc[r2] # "idle" /\ req[r1] = req[r2]
SamePaymentRef(r1, r2) ==
  pc[r1] # "idle" /\ pc[r2] # "idle" /\ req[r1].paymentRef = req[r2].paymentRef
OrdersOf(rs) == {o \in orders : o.id \in rs}
OrdersOfCart(c) == {e \in events : e.type = "ORDER_CREATED" /\ e.cartId = c}

C3_NoOverReservation ==
  \A row \in InvRows : inventory[row].reserved_qty <= inventory[row].available_qty

\* two users went for the last unit of a product: one reserved it, the other was
\* refused after the first had committed
C3_Witness ==
  \E r1 \in Reqs, r2 \in Reqs, row \in InvRows :
    /\ req[r1].userID # req[r2].userID
    /\ loc[r1].committed
    /\ result[r2].err = ErrInsufficient
    /\ pc[r2] = "rollback"
    /\ InventoryRow(row[1], row[2]) \in tx[r2].locks
    /\ inventory[row].reserved_qty = inventory[row].available_qty
    /\ inventory[row].reserved_qty > InitInventory[row].reserved_qty

C6_CartCheckedOutOnce ==
  /\ [](\A c \in Carts : Cardinality(OrdersOfCart(c)) <= 1)
  /\ [][\A c \in Carts : carts[c] = "closed" => carts'[c] = "closed"]_vars

\* a second request for a cart that was checked out finds it closed; the two
\* requests were in their transactions together after the lock key expired
C6_Witness ==
  \E r1 \in Reqs, r2 \in Reqs :
    /\ r1 # r2 /\ req[r1].cartID = req[r2].cartID
    /\ loc[r1].committed /\ carts[req[r1].cartID] = "closed"
    /\ Cardinality(OrdersOfCart(req[r1].cartID)) = 1
    /\ loc[r2].locked /\ result[r2].err = ErrCartInvalid
    /\ pc[r1] # "done"

\* ------------------------------------------------------------------ C7
\* C7: the store changes only at the commit of a transaction, so a checkout that
\* fails before its commit leaves every table as it was: it has no order, order
\* item or event, and everything it wrote in its transaction is dropped.
C7_FailureLeavesStoreUnchanged ==
  /\ [](\A r \in Reqs :
         Failed(r) =>
           /\ ~loc[r].committed
           /\ OrdersOf({r}) = {}
           /\ \A i \in order_items : i.order_id # r
           /\ \A e \in events : e.orderId # r)
  /\ [][dbVars' # dbVars =>
          \E r \in Reqs : pc[r] = "commit" /\ pc'[r] = "postcommit"]_vars

\* a checkout with a coupon failed on its second item after it had redeemed the
\* coupon and reserved its first item: the coupon, the usage, the cart and the
\* first item's row show nothing of it
C7_Witness ==
  \E r \in Reqs :
    /\ pc[r] \in {"release", "done"} /\ result[r].err = ErrInsufficient
    /\ req[r].coupon \in Coupons /\ Len(CartItemRows[req[r].cartID]) = 2
    /\ coupons[req[r].coupon].used_count = env.used
    /\ usage[<<req[r].userID, req[r].coupon>>] = 0
    /\ carts[req[r].cartID] = "open"
    /\ \E o \in Reqs \ {r} :
         /\ loc[o].committed
         /\ inventory[<<CartItemRows[req[r].cartID][1].product_id, WhEast>>].reserved_qty
              = 1 + InitInventory[<<CartItemRows[req[r].cartID][1].product_id, WhEast>>].reserved_qty

\* ------------------------------------------------------------------ C8
\* the attempts counted so far for user u in minute m: those made before the run
\* and those of the requests of the run whose increment went through
AttemptsCounted(u, m) ==
  (IF <<u, m>> = <<"u1", 0>> THEN env.attempts ELSE 0)
  + Cardinality({r \in Reqs : req[r].userID = u /\ loc[r].minute = m /\ loc[r].count > 0})

\* C8: the counter of a (user, minute) is the number of the user's attempts in that
\* minute and each attempt sees its own number; the attempts numbered up to 10 are
\* never rejected with RateLimited, and an attempt numbered 11 or more is rejected
\* with RateLimited and nothing else.
C8_EleventhAttemptRejected ==
  /\ \A u \in Users, m \in Minutes : rl[<<u, m>>] = AttemptsCounted(u, m)
  /\ \A r \in Reqs :
       /\ loc[r].count > 0 => loc[r].count <= rl[<<req[r].userID, loc[r].minute>>]
       /\ result[r].err = ErrRateLimited => loc[r].count > RateLimit /\ Done(r)
       /\ (loc[r].count > RateLimit /\ pc[r] \notin {"expire"})
            => result[r].err = ErrRateLimited /\ ~loc[r].locked /\ ~loc[r].committed
  /\ \A r1 \in Reqs, r2 \in Reqs :
       (r1 # r2 /\ req[r1].userID = req[r2].userID /\ loc[r1].minute = loc[r2].minute
          /\ loc[r1].count > 0)
       => loc[r1].count # loc[r2].count

\* the user's 10th attempt of the minute succeeded and the 11th, in the same
\* minute, was rejected
C8_Witness ==
  \E r1 \in Reqs, r2 \in Reqs :
    /\ req[r1].userID = req[r2].userID /\ loc[r1].minute = loc[r2].minute
    /\ loc[r1].count = RateLimit /\ Done(r1) /\ Succeeded(r1) /\ loc[r1].committed
    /\ loc[r2].count = RateLimit + 1 /\ Done(r2) /\ result[r2].err = ErrRateLimited

C10_LockReleasedOnEveryExit ==
  \A r \in Reqs :
    /\ (Done(r) /\ loc[r].locked) => loc[r].released
    /\ loc[r].released => loc[r].locked /\ Done(r)
    /\ (pc[r] = "release" \/ loc[r].released) => ~InTransaction(r) /\ tx[r] = NoTx

\* a request whose transaction ended in a store error has attempted the Del; the
\* Del failed and the key is still there
C10_Witness ==
  \E r \in Reqs :
    /\ Done(r) /\ result[r].err = ErrStore
    /\ loc[r].locked /\ loc[r].released
    /\ lock[req[r].userID] = r

\* ------------------------------------------------------------------ C11
\* C11: a request whose Get finds a record under its paymentRef finishes in that
\* step with the stored result, unchanged, and the step changes nothing else: the
\* counters and their expirations, the locks, the transactions and the tables, the
\* record itself and the fan-out keys are as before, whatever the counter of the
\* user and whoever holds the user's lock.
C11_StoreHitBypasses ==
  [][\A r \in Reqs :
       (pc[r] = "get" /\ pc'[r] # "get" /\ idem[req[r].paymentRef] # NoValue)
         => /\ pc'[r] = "done"
            /\ result'[r] = OkResult(Unmarshal(idem[req[r].paymentRef]))
            /\ \E o \in Reqs \ {r} : loc[o].committed /\ result'[r].resp =
                 [orderId |-> o, status |-> "pending", total |-> loc[o].total]
            /\ loc'[r] = NoLoc
            /\ UNCHANGED <<rl, rlTTL, lock, tx, idem, summary, leaderboard, stream, dbVars>>]_vars

\* a record is found while the user's lock is held by the other request and the
\* user's counter of the minute is at the limit
C11_Witness ==
  \E r \in Reqs : \E o \in Reqs \ {r} :
    /\ AnsweredFromStore(r)
    /\ loc[r].count = 0
    /\ lock[req[r].userID] = o
    /\ pc[o] = "release"
    /\ rl[<<req[r].userID, minute>>] >= RateLimit


\* ------------------------------------------------------------------ C12
\* the steps of processCheckout in the order of its statements: the Get, the
\* counter (Incr and Expire), the SetNX, the transaction from Begin to Commit or
\* Rollback, the fan-out, the SetEx, the deferred Del
Stage(p) ==
  CASE p = "idle" -> 0
    [] p = "get" -> 1
    [] p \in {"incr", "expire"} -> 2
    [] p = "setnx" -> 3
    [] p \in {"begin", "cart", "items", "coupon", "usage", "redeem", "warehouse",
              "reserve", "persist", "commit", "rollback"} -> 4
    [] p = "postcommit" -> 5
    [] p = "idemput" -> 6
    [] p = "release" -> 7
    [] p = "done" -> 8

\* a step of r goes on within its stage, enters the next stage, or leaves the
\* handler early: through the deferred Del once the lock is held, directly before
StageStep(r) ==
  LET a == Stage(pc[r])
      b == Stage(pc'[r]) IN
  \/ pc'[r] = pc[r]
  \/ b = a /\ a \in {2, 4}
  \/ b = a + 1
  \/ b > a /\ pc'[r] = (IF loc[r].locked THEN "release" ELSE "done")

\* what has completed by the time r is at its stage
StageDone(r) ==
  /\ Stage(pc[r]) \in 3..7 => loc[r].count > 0
  /\ Stage(pc[r]) \in 4..7 => loc[r].locked /\ ~loc[r].released
  /\ tx[r].active => Stage(pc[r]) = 4
  /\ Stage(pc[r]) \in 5..6 => loc[r].committed /\ tx[r] = NoTx
  /\ Stage(pc[r]) = 6 =>
       \E e \in stream : e.orderId = r
  /\ (pc[r] = "release" /\ loc[r].committed /\ r \notin env.faulty) =>
       /\ \E e \in stream : e.orderId = r
       /\ idem[req[r].paymentRef] # NoValue
  /\ loc[r].released => pc[r] = "done"

\* C12: one request goes through Get, the counter, the lock, the transaction, the
\* fan-out outside the transaction, the put and the release in this order, each
\* stage entered only from the one before it and with the earlier ones completed;
\* the put is the step between the fan-out and the release, and it is the only
\* step that writes the record.
C12_StepsInOrder ==
  /\ [](\A r \in Reqs : StageDone(r))
  /\ [][\A r \in Reqs :
          /\ StageStep(r)
          /\ (pc[r] = "postcommit" /\ pc'[r] # pc[r]) => pc'[r] = "idemput"
          /\ (pc[r] = "idemput" /\ pc'[r] # pc[r]) => pc'[r] = "release"
          /\ (pc[r] # "idemput" /\ pc'[r] # pc[r]) => idem' = idem]_vars

\* a request that went through every stage: committed, fanned out, stored, and now
\* about to release the lock it still holds
C12_Witness ==
  \E r \in Reqs :
    /\ pc[r] = "release"
    /\ loc[r].committed
    /\ loc[r].count > 0
    /\ lock[req[r].userID] = r
    /\ idem[req[r].paymentRef] = Marshal(result[r].resp)
    /\ \E e \in stream : e.orderId = r

\* ------------------------------------------------------------------ C13
\* C13: the release of a request removes a user's lock entry only if that request
\* created the entry: no release deletes the entry another request holds, also
\* when the releasing request outlived its own entry and the other request has
\* acquired the lock since.
C13_ReleaseOnlyOwnLock ==
  [][\A r \in Reqs :
       (pc[r] = "release" /\ pc'[r] = "done"
          /\ lock'[req[r].userID] # lock[req[r].userID])
         => lock[req[r].userID] = r]_vars

\* ------------------------------------------------------------------ C14
\* the fan-out of r has run
FannedOut(r) == loc[r].committed /\ pc[r] \in {"idemput", "release", "done"}

\* C14: whichever of the fan-out calls fail (the Keys and Del of the summary keys,
\* the ZIncrBy, the XAdd), the committed order stays in the table as it was
\* written, and the request returns the success {orderId, pending, total} of that
\* order.
C14_FanoutFailureSwallowed ==
  /\ [](\A r \in Reqs : FannedOut(r) =>
          /\ result[r] = OkResult([orderId |-> r, status |-> "pending", total |-> loc[r].total])
          /\ result[r].http = 200
          /\ \E o \in orders : o.id = r /\ o.status = "pending" /\ o.total = loc[r].total
          /\ \E e \in events : e.orderId = r /\ e.type = "ORDER_CREATED")
  /\ [][orders \subseteq orders' /\ order_items \subseteq order_items'
          /\ events \subseteq events']_vars

\* a request whose fan-out failed in every call (no stream entry, no score, the
\* summary keys still there) and that returned its order
C14_Witness ==
  \E r \in Reqs :
    /\ Done(r) /\ loc[r].committed /\ Succeeded(r)
    /\ result[r].resp.orderId = r
    /\ stream = {}
    /\ leaderboard[req[r].userID] = 0
    /\ summary[req[r].userID]
    /\ \E o \in orders : o.id = r

\* ------------------------------------------------------------------ C15
\* the stream entries of the orders of r
StreamOf(r) == {e \in stream : e.orderId = r}

\* C15: the summary keys of a user are deleted, the user's score is raised and an
\* order event is appended only by the fan-out step of a request of that user
\* whose transaction has committed (its order is in the table and its transaction
\* is closed), the score by the total of the order and the event with its id and
\* total; a request that failed has no event in the stream, and a user without an
\* order has no score and keeps the summary keys.
C15_FanoutOnlyAfterCommit ==
  /\ [](/\ \A r \in Reqs : Failed(r) => StreamOf(r) = {}
        /\ \A e \in stream : \E o \in orders :
             o.id = e.orderId /\ o.total = e.total /\ o.user_id = e.userId
        /\ \A u \in Users : (leaderboard[u] # 0 \/ ~summary[u]) =>
             \E o \in orders : o.user_id = u)
  /\ [][(summary' # summary \/ leaderboard' # leaderboard \/ stream' # stream) =>
          \E r \in Reqs :
            /\ pc[r] = "postcommit" /\ pc'[r] # pc[r]
            /\ loc[r].committed /\ ~tx[r].active
            /\ \E o \in orders : o.id = r /\ o.total = loc[r].total
            /\ \A u \in Users \ {req[r].userID} :
                 summary'[u] = summary[u] /\ leaderboard'[u] = leaderboard[u]
            /\ leaderboard'[req[r].userID] \in
                 {leaderboard[req[r].userID], leaderboard[req[r].userID] + loc[r].total}
            /\ stream' \ stream \subseteq
                 {[userId |-> req[r].userID, orderId |-> r, total |-> loc[r].total]}
            /\ stream \subseteq stream']_vars

\* the fan-out of a committed request has had all its effects, while the other
\* request failed and left none
C15_Witness ==
  \E r \in Reqs : \E o \in Reqs \ {r} :
    /\ Done(r) /\ loc[r].committed
    /\ ~summary[req[r].userID]
    /\ leaderboard[req[r].userID] = loc[r].total
    /\ StreamOf(r) # {}
    /\ Done(o) /\ Failed(o) /\ loc[o].locked
    /\ StreamOf(o) = {}

\* ------------------------------------------------------------------ C16
\* the messages a checkout can fail with
ErrorMessages ==
  {ErrRateLimited, ErrLockDenied, ErrCartInvalid, ErrCartEmpty, ErrCouponInvalid,
   ErrCouponUsed, ErrInsufficient, ErrStore}

Checkout(r) ==
  {x \in [order : orders, event : events, resp : {result[r].resp}] :
     /\ loc[r].committed /\ Succeeded(r)
     /\ x.order.id = r
     /\ x.event.orderId = r}

\* C17: for every successful checkout the total is
\* max(0, subtotal - discount + tax + shipping), with the subtotal the sum of
\* qty x unit_price over the rows of the cart; the total of the order row, the
\* total of the response and the total of the audit event are the same amount,
\* and it is not negative.
C17_TotalFormula ==
  \A r \in Reqs : \A x \in Checkout(r) :
    LET o == x.order
        sum == o.subtotal - o.discount + o.tax + o.shipping IN
    /\ o.subtotal = SumSubtotal(CartItemRows[req[r].cartID])
    /\ o.total = (IF sum > 0 THEN sum ELSE 0)
    /\ o.total = x.resp.total
    /\ x.event.total = x.resp.total
    /\ x.resp.total >= 0

\* ------------------------------------------------------------------ C18
\* C18: for every successful checkout the tax is 8% of subtotal - discount,
\* rounded to the nearest cent, the difference taken as it is, negative or not.
C18_TaxRoundedToCent ==
  \A r \in Reqs : \A x \in Checkout(r) :
    x.order.tax = Numeric2(TruncDiv100((x.order.subtotal - x.order.discount) * 8))

\* ------------------------------------------------------------------ C19
\* C19: for every successful checkout the shipping is 0 when the subtotal before
\* the discount is above 100.00 and 5.99 + 0.99 x (rows - 1) otherwise, rows being
\* the number of cart item rows whatever their quantities; a subtotal of exactly
\* 100.00 pays shipping. The cart of two A at 20.00 and one B at 15.00 without a
\* coupon has subtotal 55.00, shipping 6.98, tax 4.40 and total 66.38.
C19_Shipping ==
  \A r \in Reqs : \A x \in Checkout(r) :
    LET items == CartItemRows[req[r].cartID]
        subtotal == SumSubtotal(items)
        o == x.order IN
    /\ o.shipping = (IF subtotal > 10000 * Cent THEN 0
                     ELSE 599 * Cent + 99 * Cent * (Len(items) - 1))
    /\ req[r].cartID = "c6" => o.subtotal = 10000 * Cent /\ o.shipping = 599 * Cent
    /\ (req[r].cartID = "c1" /\ req[r].coupon = "") =>
         /\ o.subtotal = 5500 * Cent /\ o.shipping = 698 * Cent
         /\ o.tax = 440 * Cent /\ o.total = 6638 * Cent
         /\ x.resp.total = 6638 * Cent

\* the cart of the example and the cart of exactly 100.00 have both been checked
\* out, the first over two rows and three pieces
C19_Witness ==
  \E r \in Reqs : \E o \in Reqs \ {r} :
    /\ Checkout(r) # {} /\ req[r].cartID = "c1" /\ req[r].coupon = ""
    /\ Checkout(o) # {} /\ req[o].cartID = "c6"

\* ------------------------------------------------------------------ C20
\* C20: the discount of a checkout is subtotal x value / 100 for a percentage
\* coupon, the value for a fixed coupon and 0 without a coupon; the tax is that of
\* subtotal - discount, and the total is built from this discount and this tax.
\* The cart of two A at 20.00 and one B at 15.00 with the 10% coupon has
\* discount 5.50, tax 3.96 and total 60.44.
C20_Discount ==
  \A r \in Reqs :
    LET subtotal == SumSubtotal(CartItemRows[req[r].cartID])
        k == req[r].coupon
        d == IF k = NoCoupon THEN 0
             ELSE IF coupons[k].type = "percentage" THEN (subtotal * coupons[k].value) \div 100
             ELSE coupons[k].value * 100 * Cent
        tax == computeTax(subtotal - d)
        sum == subtotal - d + tax + computeShipping(subtotal, Len(CartItemRows[req[r].cartID])) IN
    /\ pc[r] \in {"warehouse", "reserve", "persist", "commit"} => loc[r].discount = d
    /\ \A x \in Checkout(r) :
         /\ x.order.discount = Numeric2(d)
         /\ x.order.tax = tax
         /\ x.resp.total = (IF sum > 0 THEN sum ELSE 0)
         /\ (req[r].cartID = "c1" /\ req[r].coupon = "WELCOME10") =>
              /\ x.order.discount = 550 * Cent /\ x.order.tax = 396 * Cent
              /\ x.order.total = 6044 * Cent /\ x.resp.total = 6044 * Cent

\* the example cart has been checked out with the 10% coupon and another cart
\* with the fixed coupon
C20_Witness ==
  \E r \in Reqs : \E o \in Reqs \ {r} :
    /\ Checkout(r) # {} /\ req[r].cartID = "c1" /\ req[r].coupon = "WELCOME10"
    /\ Checkout(o) # {} /\ req[o].coupon = "FLAT100"
    /\ \E x \in Checkout(o) : x.order.discount = 100 * 100 * Cent

\* ------------------------------------------------------------------ C21
\* C21: a lock entry of a user is eventually absent again, deleted by its holder
\* or expired, also when the holder stops before its release or the Del of the
\* release fails; a failed Del is not reported (the release leaves the result of
\* the request as it was), and so the user's lock is not denied forever.
C21_LockEventuallyAbsent ==
  /\ \A u \in Users : (lock[u] # NoReq) ~> (lock[u] = NoReq)
  /\ [][\A r \in Reqs : (pc[r] = "release" /\ pc'[r] # pc[r]) =>
          pc'[r] = "done" /\ result'[r] = result[r]]_vars

\* the Del of a successful request failed: the request has returned its order
\* and its lock entry is still there
C21_Witness ==
  \E r \in Reqs :
    /\ Done(r) /\ Succeeded(r) /\ loc[r].committed
    /\ lock[req[r].userID] = r

\* ------------------------------------------------------------------ C22
\* the first request has returned before the second one arrived: its checkout
\* ran alone from the store state of the start
Alone(r) == Done(r) /\ RequestOrder[r] = 1 /\ \A o \in Reqs \ {r} : pc[o] = "idle"

\* what a checkout of the user u, the cart c and the coupon k, run alone from the
\* store state of the start, fails with ("" when it succeeds), and the discount
\* and the amounts of its order: none of them has the items of the body in it
AloneError(u, c, k) ==
  LET rows == CartItemRows[c]
      coupon == InitCoupons(env.used)[k] IN
  IF CartOwner[c] # u THEN ErrCartInvalid
  ELSE IF rows = << >> THEN ErrCartEmpty
  ELSE IF k # NoCoupon /\ coupon.used_count >= coupon.max_uses THEN ErrCouponInvalid
  ELSE IF k # NoCoupon /\ u \in PriorRedeemers(env.used) THEN ErrCouponUsed
  ELSE IF \E i \in 1..Len(rows) :
            InitInventory[<<rows[i].product_id, WhEast>>].available_qty
              - InitInventory[<<rows[i].product_id, WhEast>>].reserved_qty < rows[i].qty
       THEN ErrInsufficient
  ELSE ""

\* the pieces of the product p in the cart c
QtyInCart(c, p) ==
  LET rows == CartItemRows[c]
      at == {i \in 1..Len(rows) : rows[i].product_id = p} IN
  IF at = {} THEN 0 ELSE rows[CHOOSE i \in at : TRUE].qty

AlonePrice(c, k) ==
  LET rows == CartItemRows[c]
      coupon == InitCoupons(env.used)[k]
      d == IF k = NoCoupon THEN 0
           ELSE IF coupon.type = "percentage" THEN (SumSubtotal(rows) * coupon.value) \div 100
           ELSE coupon.value * 100 * Cent IN
  PriceOf(rows, d)

\* the response and the store after the checkout of r, run alone, are those of
\* its userID, cartID and coupon
OutcomeOfBodyWithoutItems(r) ==
  LET u == req[r].userID
      c == req[r].cartID
      k == req[r].coupon
      msg == AloneError(u, c, k)
      price == AlonePrice(c, k) IN
  IF msg # ""
  THEN /\ result[r] = ErrResult(msg)
       /\ carts = [x \in Carts |-> "open"]
       /\ coupons = InitCoupons(env.used)
       /\ usage = InitUsage(PriorRedeemers(env.used))
       /\ inventory = InitInventory
       /\ orders = {} /\ order_items = {} /\ events = {}
       /\ idem = [p \in PaymentRefs |-> NoValue]
       /\ leaderboard = [x \in Users |-> 0] /\ stream = {}
  ELSE /\ result[r] = OkResult([orderId |-> r, status |-> "pending", total |-> price.total])
       /\ carts = [x \in Carts |-> IF x = c THEN "closed" ELSE "open"]
       /\ coupons = [x \in Coupons |->
                       IF x = k THEN [InitCoupons(env.used)[x] EXCEPT !.used_count = @ + 1]
                       ELSE InitCoupons(env.used)[x]]
       /\ usage = [x \in Users \X Coupons |->
                     IF x = <<u, k>> THEN 1 ELSE InitUsage(PriorRedeemers(env.used))[x]]
       /\ inventory = [row \in InvRows |->
                         [InitInventory[row] EXCEPT !.reserved_qty =
                            @ + (IF row[2] = WarehouseOf(UserRegion[u])
                                 THEN QtyInCart(c, row[1]) ELSE 0)]]
       /\ orders = {[id |-> r, user_id |-> u, status |-> "pending",
                     subtotal |-> Numeric2(price.subtotal), discount |-> Numeric2(price.discount),
                     tax |-> Numeric2(price.tax), shipping |-> Numeric2(price.shipping),
                     total |-> Numeric2(price.total)]}
       /\ order_items = {[order_id |-> r, product_id |-> CartItemRows[c][i].product_id,
                          qty |-> CartItemRows[c][i].qty,
                          unit_price |-> CartItemRows[c][i].unit_price] :
                            i \in 1..Len(CartItemRows[c])}
       /\ events = {[user_id |-> u, type |-> "ORDER_CREATED", orderId |-> r,
                     total |-> price.total, cartId |-> c]}
       /\ idem = [p \in PaymentRefs |->
                    IF p = req[r].paymentRef THEN Marshal(result[r].resp) ELSE NoValue]
       /\ leaderboard = [x \in Users |-> IF x = u THEN price.total ELSE 0]
       /\ stream = {[userId |-> u, orderId |-> r, total |-> price.total]}

\* C22 as stated: whatever the items list of the body, the response and the
\* store after a checkout are those of the other fields of the body.
C22_AsStated ==
  \A r \in Reqs : Alone(r) => OutcomeOfBodyWithoutItems(r)

\* C22: for a body that has items, the response and the store after a checkout
\* are determined by the userID, the cartID and the coupon of the body and the
\* store state, whatever the items list says; a body whose items list is empty is
\* answered 400 "items are required" and nothing is read or written for it.
C22_ItemsIgnored ==
  \A r \in Reqs :
    /\ (Alone(r) /\ req[r].items # << >>) => OutcomeOfBodyWithoutItems(r)
    /\ (pc[r] # "idle" /\ req[r].items = << >>) =>
         /\ Done(r) /\ result[r] = InvalidResult /\ loc[r] = NoLoc /\ tx[r] = NoTx

\* a checkout whose body lists two B and one A has created the order of its
\* cart, two A and one B
C22_Witness ==
  \E r \in Reqs :
    /\ Alone(r) /\ Succeeded(r)
    /\ Len(req[r].items) = 2 /\ req[r].items[1].productId = "pB" /\ req[r].items[1].qty = 2
    /\ \E i \in order_items : i.order_id = r /\ i.product_id = "pA" /\ i.qty = 2

\* ------------------------------------------------------------------ C23
\* C23: a record of the Idempotency Store is never updated: the value stored
\* under a paymentRef stays the same for as long as the record exists, whatever
\* the requests and their interleaving.
C23_RecordNeverUpdated ==
  [][\A p \in PaymentRefs : idem[p] # NoValue => idem'[p] = idem[p]]_vars

\* ------------------------------------------------------------------ C24
\* C24: a Get that fails is treated as a miss, also when a record is stored under
\* the paymentRef: the step leaves the request without a result, at the rate
\* limit, with the cache and the tables as they were; no step out of the Get ends
\* the request with an error.
C24_GetErrorIsMiss ==
  /\ [](\A r \in Reqs : loc[r].getErr => pc[r] = "incr" /\ result[r] = NoResult)
  /\ [][\A r \in Reqs : (pc[r] = "get" /\ pc'[r] # "get") =>
          /\ result'[r].status # "err"
          /\ loc'[r].getErr =>
               /\ pc'[r] = "incr"
               /\ loc'[r] = [NoLoc EXCEPT !.getErr = TRUE]
               /\ UNCHANGED <<result, tx, redisVars, dbVars>>
          /\ pc'[r] = "incr" => result'[r] = NoResult]_vars

\* the Get of a request failed although its record is stored, and the request
\* is at the rate limit
C24_Witness ==
  \E r \in Reqs :
    /\ loc[r].getErr /\ pc[r] = "incr"
    /\ idem[req[r].paymentRef] # NoValue

\* ------------------------------------------------------------------ C25
\* rejected by the rate limit or by the lock
Rejected(r) == Failed(r) /\ result[r].err \in {ErrRateLimited, ErrLockDenied}

\* C25: a request rejected with RateLimited or LockDenied has gone through no
\* step of the transaction and holds no lock; none of its steps reads or writes
\* a table, writes a record of the Idempotency Store or creates or deletes a
\* lock entry (the lock of the holder stays in place); all it has changed is the
\* counter of its user and minute, raised by one, with the expiry of the key.
C25_RejectionHasNoEffect ==
  /\ [](\A r \in Reqs : Rejected(r) =>
          /\ Done(r) /\ tx[r] = NoTx
          /\ loc[r] = [NoLoc EXCEPT !.count = loc[r].count, !.minute = loc[r].minute]
          /\ loc[r].count > 0
          /\ \A o \in orders : o.id # r)
  /\ [][\A r \in Reqs : (pc'[r] # pc[r] /\ Rejected(r)') =>
          /\ pc'[r] = "done"
          /\ UNCHANGED <<lock, idem, tx, dbVars, summary, leaderboard, stream>>
          /\ result'[r].err = ErrLockDenied =>
               lock[req[r].userID] # NoReq /\ lock[req[r].userID] # r /\ rl' = rl]_vars
  /\ [][\A r \in Reqs : (pc'[r] # pc[r] /\ pc[r] \in {"incr", "expire"}) =>
          /\ UNCHANGED <<lock, idem, tx, dbVars, summary, leaderboard, stream>>
          /\ \A k \in Users \X Minutes :
               rl'[k] = rl[k] + (IF pc[r] = "incr" /\ k = <<req[r].userID, minute>>
                                    /\ loc'[r].count > 0 THEN 1 ELSE 0)]_vars

\* one request was rejected by the lock the other one holds in its transaction,
\* and the lock is still the holder's
C25_Witness ==
  \E r \in Reqs : \E o \in Reqs \ {r} :
    /\ Rejected(r) /\ result[r].err = ErrLockDenied
    /\ lock[req[r].userID] = o /\ tx[o].active

\* ------------------------------------------------------------------ C26
\* the request r has made its Incr and the Incr went through
Counted(r) == loc[r].count > 0

\* C26: a request that missed the Idempotency Store and whose Incr went through
\* has raised the counter of its user and minute by exactly one before anything
\* else (it has no lock and no transaction without it), whatever its outcome; no
\* step ever lowers a counter, and a step that changes one is the Incr of one
\* request, on that request's key, by one. So the rejected and the failed
\* attempts are numbered like the others, and the next attempt gets the next
\* number.
C26_EveryAttemptCounts ==
  /\ [](\A r \in Reqs :
          /\ (loc[r].locked \/ tx[r].active \/ loc[r].committed \/ pc[r] = "setnx"
                \/ Rejected(r)) => Counted(r)
          /\ (pc[r] \notin {"idle", "get", "incr"} /\ ~Counted(r)) =>
               /\ Done(r)
               /\ AnsweredFromStore(r) \/ result[r] = ErrResult(ErrStore)
                    \/ result[r] = InvalidResult
          /\ Counted(r) =>
               Cardinality({o \in Reqs : /\ Counted(o)
                                         /\ req[o].userID = req[r].userID
                                         /\ loc[o].minute = loc[r].minute
                                         /\ loc[o].count <= loc[r].count})
                 + (IF <<req[r].userID, loc[r].minute>> = <<"u1", 0>> THEN env.attempts ELSE 0)
                 = loc[r].count)
  /\ [][\A k \in Users \X Minutes :
          /\ rl'[k] >= rl[k]
          /\ rl'[k] # rl[k] =>
               \E r \in Reqs :
                 /\ pc[r] = "incr" /\ pc'[r] # "incr"
                 /\ k = <<req[r].userID, minute>>
                 /\ rl'[k] = rl[k] + 1
                 /\ loc'[r].count = rl'[k]
                 /\ \A j \in (Users \X Minutes) \ {k} : rl'[j] = rl[j]]_vars

\* the eleventh attempt of the minute was rejected and still counted: the next
\* attempt was numbered twelve
C26_Witness ==
  \E r \in Reqs : \E o \in Reqs \ {r} :
    /\ Rejected(r) /\ loc[r].count = RateLimit + 1
    /\ Rejected(o) /\ loc[o].count = RateLimit + 2 /\ loc[o].minute = loc[r].minute
    /\ rl[<<req[o].userID, loc[o].minute>>] = RateLimit + 2

\* ------------------------------------------------------------------ C27
\* the attempts of one user where for either request the Incr and the Expire
\* of the rate limit may fail
InitExpire ==
  InitFrom([inputs |-> RateInputs, faults |-> {"Incr", "Expire"}, faulty |-> Reqs,
            used |-> 0, attempts |-> 0, region |-> SeededRegion], FALSE)

SpecExpire == InitExpire /\ [][NextRate]_vars

\* the request r has created the counter key k and has not yet made its Expire
ExpirePending(r, k) ==
  pc[r] = "expire" /\ k = <<req[r].userID, loc[r].minute>>

\* C27: every counter key that exists carries an expiry as soon as the request
\* that created it is past its Expire call, whatever the outcome of that call.
C27_CounterKeyHasExpiry ==
  \A k \in Users \X Minutes :
    rl[k] > 0 => rlTTL[k] \/ \E r \in Reqs : ExpirePending(r, k)

\* ------------------------------------------------------------------ C28
\* the request r is past the cart check of its transaction
PastCartCheck(r) ==
  \/ pc[r] \in {"items", "coupon", "usage", "redeem", "warehouse", "reserve", "persist", "commit"}
  \/ loc[r].committed

\* C28: a request gets past the cart check only with a cart of its own userID
\* that was open when the row was read. When the request makes the check and no
\* row matches (cartID, userID), or the row it locks is not open, it fails with
\* CartInvalid and leaves the transaction with nothing written. No request
\* closes a cart of another user, and no order is created from one.
C28_OnlyOwnOpenCart ==
  /\ [](/\ \A r \in Reqs :
             /\ PastCartCheck(r) => CartOwner[req[r].cartID] = req[r].userID
             /\ \A c \in tx[r].closed : CartOwner[c] = req[r].userID
             /\ result[r].err = ErrCartInvalid =>
                  ~loc[r].committed /\ OrdersOf({r}) = {} /\ tx[r].closed = {}
        /\ \A e \in events :
             e.type = "ORDER_CREATED" => CartOwner[e.cartId] = e.user_id)
  /\ [][\A r \in Reqs :
          /\ (/\ pc[r] = "cart" /\ pc'[r] # "cart"
              /\ \/ CartOwner[req[r].cartID] # req[r].userID
                 \/ carts[req[r].cartID] # "open")
               => /\ result'[r] = ErrResult(ErrCartInvalid)
                  /\ pc'[r] = "rollback"
                  /\ carts' = carts /\ orders' = orders
          /\ (pc[r] = "cart" /\ pc'[r] = "items")
               => CartOwner[req[r].cartID] = req[r].userID /\ carts[req[r].cartID] = "open"
          /\ (result[r].err = ErrCartInvalid /\ pc[r] # "cart")
               => result'[r].err = ErrCartInvalid]_vars

\* a request asked for the cart of another user and ended with CartInvalid; the
\* owner checked that cart out, and the order created from it is the owner's
C28_Witness ==
  \E r \in Reqs : \E c \in Carts :
    /\ Done(r) /\ result[r].err = ErrCartInvalid
    /\ req[r].cartID = c /\ CartOwner[c] # req[r].userID
    /\ carts[c] = "closed"
    /\ \E e \in events : e.cartId = c /\ e.user_id = CartOwner[c]

\* ------------------------------------------------------------------ C29
\* the validity windows of the 10% coupon, in minutes of the run: one that
\* covers the run, one that opens after the first minute, one that closes with it
CouponWindows == {<<0, MaxMinute>>, <<1, MaxMinute>>, <<0, 0>>}

\* the bodies of one user's checkouts of one cart: with the 10% coupon, with a
\* code that has no row, without a coupon
CouponInputs ==
  [userID : {"u1"}, cartID : {"c1"}, items : {ItemsSent},
   coupon : {"WELCOME10", NoSuchCoupon, ""}, paymentRef : PaymentRefs]

\* the checkouts of CouponInputs while the clock advances, for every used_count
\* up to the cap and every window of the 10% coupon
InitCoupon ==
  \E used \in 0..MaxUses : \E w \in CouponWindows :
    /\ env = [inputs |-> CouponInputs, faults |-> {}, faulty |-> {},
              used |-> used, attempts |-> 0, region |-> SeededRegion]
    /\ pc = [r \in Reqs |-> "idle"]
    /\ req = [r \in Reqs |-> NoRequest]
    /\ loc = [r \in Reqs |-> NoLoc]
    /\ result = [r \in Reqs |-> NoResult]
    /\ tx = [r \in Reqs |-> NoTx]
    /\ minute = 0
    /\ idem = [p \in PaymentRefs |-> NoValue]
    /\ rl = [k \in Users \X Minutes |-> 0]
    /\ rlTTL = [k \in Users \X Minutes |-> FALSE]
    /\ lock = [u \in Users |-> NoReq]
    /\ summary = [u \in Users |-> FALSE]
    /\ summaryVal = [u \in Users |-> NoValue]
    /\ ov = [u \in Users |-> NoOverview]
    /\ leaderboard = [u \in Users |-> 0]
    /\ stream = {}
    /\ carts = [c \in Carts |-> "open"]
    /\ coupons = [InitCoupons(used) EXCEPT !["WELCOME10"].starts_at = w[1],
                                           !["WELCOME10"].ends_at = w[2]]
    /\ usage = InitUsage(PriorRedeemers(used))
    /\ inventory = InitInventory
    /\ orders = {}
    /\ order_items = {}
    /\ events = {}

SpecCoupon == InitCoupon /\ [][NextRate]_vars

\* what the claim says of a coupon code k at the time now: no row, outside the
\* window of the row, or a row whose cap is reached
CouponRefused(k, now) ==
  IF k \notin Coupons THEN TRUE
  ELSE \/ now < coupons[k].starts_at
       \/ now > coupons[k].ends_at
       \/ coupons[k].max_uses # -1 /\ coupons[k].used_count >= coupons[k].max_uses

ReservedBy(r, row) ==
  IF row[2] = WarehouseOf(UserRegion[req[r].userID])
  THEN QtyInCart(req[r].cartID, row[1]) ELSE 0

\* C30: inventory changes only in the step in which a checkout commits, and
\* that step adds to reserved_qty of each row the qty of the cart item of that
\* product at the resolved warehouse and nothing to the other rows; no step
\* changes an available_qty and no step lowers a reserved_qty. In every state
\* reserved_qty of a row is its initial value plus what the committed checkouts
\* added.
C30_ReserveOnly ==
  /\ [](\A row \in InvRows :
          /\ inventory[row].available_qty = InitInventory[row].available_qty
          /\ inventory[row].reserved_qty =
               InitInventory[row].reserved_qty
               + (IF loc["r1"].committed THEN ReservedBy("r1", row) ELSE 0)
               + (IF loc["r2"].committed THEN ReservedBy("r2", row) ELSE 0))
  /\ [][/\ \A row \in InvRows :
             /\ inventory'[row].available_qty = inventory[row].available_qty
             /\ inventory'[row].reserved_qty >= inventory[row].reserved_qty
        /\ \A r \in Reqs :
             (~loc[r].committed /\ loc'[r].committed) =>
               \A row \in InvRows :
                 inventory'[row].reserved_qty = inventory[row].reserved_qty + ReservedBy(r, row)
        /\ inventory' # inventory =>
             \E r \in Reqs : pc[r] = "commit" /\ ~loc[r].committed /\ loc'[r].committed]_vars

\* two checkouts succeeded: one of a cart with both products, one of a cart
\* with one product; the row of the other product shows the first checkout only
C30_Witness ==
  \E r \in Reqs : \E o \in Reqs \ {r} :
    /\ Done(r) /\ Succeeded(r) /\ loc[r].committed /\ Len(CartItemRows[req[r].cartID]) = 2
    /\ Done(o) /\ Succeeded(o) /\ loc[o].committed /\ QtyInCart(req[o].cartID, "pB") = 0
    /\ inventory[<<"pB", WhEast>>].reserved_qty = ReservedB + QtyInCart(req[r].cartID, "pB")
    /\ inventory[<<"pA", WhEast>>].reserved_qty =
         QtyInCart(req[r].cartID, "pA") + QtyInCart(req[o].cartID, "pA")
    /\ inventory[<<"pA", WhEast>>].available_qty = AvailA

\* ------------------------------------------------------------------ C31
\* the regions the second user may live in: one with a warehouse that has
\* stock, one with a warehouse that has none, one the handler does not know
RegionsOfU2 == {"us-west", "eu-west", "moon-base"}

\* the checkouts of both users for every region of the second user, where the
\* queries of one request may fail
InitWarehouse ==
  \E g \in RegionsOfU2 :
    InitFrom([inputs |-> AllInputs, faults |-> {"Query"}, faulty |-> FaultyReqs,
              used |-> 0, attempts |-> 0,
              region |-> [SeededRegion EXCEPT !["u2"] = g]], FALSE)

SpecWarehouse == InitWarehouse /\ [][Next]_vars

\* C31: everything a checkout reserves is at one warehouse, the one of the
\* user's region, or the us-east one when the region is none of the four mapped
\* regions. The lookup itself never ends the checkout: the request goes on to
\* the reservation with no result yet and with one of the four warehouses, which
\* is the warehouse of the region whenever the query went through.
C31_OneWarehouse ==
  /\ [](\A r \in Reqs : \A x \in tx[r].reserved :
          /\ x[2] = loc[r].warehouseID
          /\ x[2] = (IF UserRegion[req[r].userID] \in MappedRegions
                     THEN warehouseByRegion(UserRegion[req[r].userID]) ELSE WhEast))
  /\ [][\A r \in Reqs :
          (pc[r] = "warehouse" /\ pc'[r] # "warehouse") =>
             /\ pc'[r] = "reserve" /\ result'[r] = result[r]
             /\ loc'[r].warehouseID \in Warehouses
             /\ ~tx'[r].aborted =>
                  loc'[r].warehouseID =
                    (IF UserRegion[req[r].userID] \in MappedRegions
                     THEN warehouseByRegion(UserRegion[req[r].userID]) ELSE WhEast)]_vars

\* a user of the us-west region checked out a cart of two products: both were
\* reserved at the us-west warehouse and the us-east rows are as they were
C31_Witness ==
  \E r \in Reqs :
    /\ Done(r) /\ Succeeded(r) /\ loc[r].committed
    /\ UserRegion[req[r].userID] = "us-west"
    /\ Len(CartItemRows[req[r].cartID]) = 2
    /\ \A p \in Products :
         /\ inventory[<<p, WhWest>>].reserved_qty =
              InitInventory[<<p, WhWest>>].reserved_qty + QtyInCart(req[r].cartID, p)
         /\ inventory[<<p, WhEast>>] = InitInventory[<<p, WhEast>>]

\* ------------------------------------------------------------------ C32
\* C32: in every state, a request whose transaction has committed has exactly
\* one order, pending and of its user; one order item per cart item, with the
\* product, qty and unit_price of the cart item; its cart is closed; and exactly
\* one ORDER_CREATED event of its user carries the order's id, the order's
\* total and the cart id. A request that has not committed has none of these,
\* and a cart is closed only by a committed request.
C32_CommitCreatesAll ==
  /\ \A r \in Reqs :
       LET items == CartItemRows[req[r].cartID]
           mine == {o \in orders : o.id = r}
           evs == {e \in events : e.orderId = r} IN
       IF loc[r].committed
       THEN /\ Cardinality(mine) = 1
            /\ \A o \in mine : o.status = "pending" /\ o.user_id = req[r].userID
            /\ {i \in order_items : i.order_id = r} =
                 {[order_id |-> r, product_id |-> items[i].product_id,
                   qty |-> items[i].qty, unit_price |-> items[i].unit_price] :
                    i \in 1..Len(items)}
            /\ Cardinality({i \in order_items : i.order_id = r}) = Len(items)
            /\ carts[req[r].cartID] = "closed"
            /\ Cardinality(evs) = 1
            /\ \A e \in evs : \A o \in mine :
                 /\ e.type = "ORDER_CREATED" /\ e.user_id = req[r].userID
                 /\ e.total = o.total /\ e.cartId = req[r].cartID
       ELSE /\ mine = {} /\ evs = {}
            /\ {i \in order_items : i.order_id = r} = {}
  /\ \A c \in Carts :
       carts[c] = "closed" => \E r \in Reqs : loc[r].committed /\ req[r].cartID = c

\* ------------------------------------------------------------------ C33
\* bodies that meet several refusals at once: a user's cart with the 10%
\* coupon and without a coupon, a second cart of that user and the empty cart
\* of another user with a code that has no row
OrderInputs ==
  {in \in [userID : Users, cartID : {"c1", "c3", "c4"}, items : {ItemsSent},
           coupon : {"WELCOME10", NoSuchCoupon, ""}, paymentRef : PaymentRefs] :
     /\ in.userID = CartOwner[in.cartID]
     /\ in.cartID = "c1" => in.coupon # NoSuchCoupon
     /\ in.cartID # "c1" => in.coupon = NoSuchCoupon}

\* the store and the cache as earlier checkouts may have left them: the user's
\* second cart open or closed, the coupon redeemed by the first user up to its cap, the
\* second product in stock or fully reserved, the first user's minute untouched
\* or used up
InitOrder ==
  \E closed \in BOOLEAN, used \in 0..MaxUses, full \in BOOLEAN, n \in {0, RateLimit} :
    /\ env = [inputs |-> OrderInputs, faults |-> {}, faulty |-> {},
              used |-> used, attempts |-> n, region |-> SeededRegion]
    /\ pc = [r \in Reqs |-> "idle"]
    /\ req = [r \in Reqs |-> NoRequest]
    /\ loc = [r \in Reqs |-> NoLoc]
    /\ result = [r \in Reqs |-> NoResult]
    /\ tx = [r \in Reqs |-> NoTx]
    /\ minute = 0
    /\ idem = [p \in PaymentRefs |-> NoValue]
    /\ rl = [k \in Users \X Minutes |-> IF k = <<"u1", 0>> THEN n ELSE 0]
    /\ rlTTL = [k \in Users \X Minutes |-> k = <<"u1", 0>> /\ n > 0]
    /\ lock = [u \in Users |-> NoReq]
    /\ summary = [u \in Users |-> FALSE]
    /\ summaryVal = [u \in Users |-> NoValue]
    /\ ov = [u \in Users |-> NoOverview]
    /\ leaderboard = [u \in Users |-> 0]
    /\ stream = {}
    /\ carts = [c \in Carts |-> IF c = "c3" /\ closed THEN "closed" ELSE "open"]
    /\ coupons = InitCoupons(used)
    /\ usage = InitUsage(PriorRedeemers(used))
    /\ inventory = [row \in InvRows |->
                      IF row[1] = "pB" /\ full
                      THEN [InitInventory[row] EXCEPT !.reserved_qty = AvailB]
                      ELSE InitInventory[row]]
    /\ orders = {}
    /\ order_items = {}
    /\ events = {}

SpecOrder == InitOrder /\ [][Next]_vars

\* the conditions of the refusals as request r finds them in a state
HitHolds(r) == idem[req[r].paymentRef] # NoValue
RateLimitedHolds(r) == rl[<<req[r].userID, minute>>] >= RateLimit
LockDeniedHolds(r) == lock[req[r].userID] # NoReq
CartInvalidHolds(r) ==
  CartOwner[req[r].cartID] # req[r].userID \/ carts[req[r].cartID] # "open"
CartEmptyHolds(r) == CartItemRows[req[r].cartID] = << >>
CouponInvalidHolds(r) ==
  req[r].coupon # NoCoupon /\ CouponRefused(req[r].coupon, minute)
CouponUsedHolds(r) ==
  req[r].coupon \in Coupons /\ usage[<<req[r].userID, req[r].coupon>>] >= 1
InsufficientHolds(r) ==
  \E i \in 1..Len(CartItemRows[req[r].cartID]) :
    LET item == CartItemRows[req[r].cartID][i]
        row == <<item.product_id, WarehouseOf(UserRegion[req[r].userID])>> IN
    row \notin InvRows
      \/ inventory[row].available_qty - inventory[row].reserved_qty < item.qty

\* C33: the checks are made in the order idempotent hit, RateLimited,
\* LockDenied, CartInvalid, CartEmpty, CouponInvalid, CouponAlreadyUsed,
\* InsufficientInventory, and a check whose condition holds ends the request
\* with its outcome whatever the conditions of the later checks are. A request
\* reports a refusal only after it has passed the checks before it: a request
\* for a cart that is not the user's or was closed from the start never reports
\* CartEmpty or a later refusal, one for an empty cart never reports a coupon
\* or stock refusal, one with a code that has no row never reports
\* CouponAlreadyUsed or InsufficientInventory, and one with a coupon its user
\* had redeemed before never reports InsufficientInventory.
C33_FirstRefusalWins ==
  /\ [](\A r \in Reqs :
          LET e == result[r].err
              u == req[r].userID
              c == req[r].cartID
              k == req[r].coupon
              later(kinds) == e \notin kinds IN
          Failed(r) =>
            /\ e \in {ErrRateLimited, ErrLockDenied, ErrCartInvalid, ErrCartEmpty,
                      ErrCouponInvalid, ErrCouponUsed, ErrInsufficient}
            /\ e = ErrRateLimited <=> loc[r].count > RateLimit
            /\ e # ErrRateLimited /\ e # ErrLockDenied => loc[r].locked
            /\ (CartOwner[c] # u \/ (carts[c] = "closed" /\ OrdersOfCart(c) = {})) =>
                 later({ErrCartEmpty, ErrCouponInvalid, ErrCouponUsed, ErrInsufficient})
            /\ CartItemRows[c] = << >> =>
                 later({ErrCouponInvalid, ErrCouponUsed, ErrInsufficient})
            /\ k = NoSuchCoupon => later({ErrCouponUsed, ErrInsufficient})
            /\ (k \in Coupons /\ InitUsage(PriorRedeemers(env.used))[<<u, k>>] >= 1) =>
                 later({ErrInsufficient}))
  /\ [][\A r \in Reqs :
          pc'[r] # pc[r] =>
            CASE pc[r] = "get" ->
                   HitHolds(r) => pc'[r] = "done" /\ result'[r].status = "ok" /\ loc'[r] = NoLoc
              [] pc[r] = "incr" ->
                   RateLimitedHolds(r) => result'[r] = ErrResult(ErrRateLimited)
              [] pc[r] = "setnx" ->
                   LockDeniedHolds(r) => result'[r] = ErrResult(ErrLockDenied)
              [] pc[r] = "cart" ->
                   CartInvalidHolds(r) => result'[r] = ErrResult(ErrCartInvalid)
              [] pc[r] = "items" ->
                   CartEmptyHolds(r) => result'[r] = ErrResult(ErrCartEmpty)
              [] pc[r] = "coupon" ->
                   CouponInvalidHolds(r) => result'[r] = ErrResult(ErrCouponInvalid)
              [] pc[r] = "usage" ->
                   CouponUsedHolds(r) => result'[r] = ErrResult(ErrCouponUsed)
              [] OTHER -> TRUE]_vars

\* the two examples at once: one request asked for a cart that was closed with
\* a code that has no row and got CartInvalid; the other came with a coupon its
\* user had redeemed while its cart could not be served from stock, and got
\* CouponAlreadyUsed
C33_Witness ==
  \E r \in Reqs : \E o \in Reqs \ {r} :
    /\ Done(r) /\ result[r].err = ErrCartInvalid
    /\ CartOwner[req[r].cartID] = req[r].userID /\ carts[req[r].cartID] = "closed"
    /\ CouponInvalidHolds(r)
    /\ Done(o) /\ result[o].err = ErrCouponUsed
    /\ CouponUsedHolds(o) /\ InsufficientHolds(o)
    /\ orders = {}

\* ------------------------------------------------------------------ C34
\* the row the statement request r is about to run wants a lock on
NoRow == <<"", "", "">>
WaitsFor(r) ==
  CASE pc[r] = "cart" /\ CartRowOf(req[r].cartID, req[r].userID) -> CartRow(req[r].cartID)
    [] pc[r] = "coupon" /\ req[r].coupon \in Coupons -> CouponRow(req[r].coupon)
    [] pc[r] = "usage" /\ req[r].coupon \in Coupons
         /\ usage[<<req[r].userID, req[r].coupon>>] > 0 ->
           UsageRow(req[r].userID, req[r].coupon)
    [] pc[r] = "reserve" /\ ~tx[r].aborted ->
           InventoryRow(loc[r].cartItems[loc[r].idx].product_id, loc[r].warehouseID)
    [] OTHER -> NoRow

\* a store that lets transactions wait for each other for ever
DeadlockNeverDetected(r) == FALSE

\* the transaction of r waits for a row lock of a transaction that waits for a
\* row lock of r's: the cycle the store's deadlock check looks for
Deadlocked(r) ==
  \E o \in Reqs \ {r} : WaitsFor(r) \in tx[o].locks /\ WaitsFor(o) \in tx[r].locks

\* the store ends a deadlock by failing the waiting SELECT ... FOR UPDATE of one
\* of the transactions; reserveInventory turns the error into
\* "Insufficient inventory" (checkout.go:410-412)
DeadlockAbort(r) ==
  /\ Deadlocked(r)
  /\ pc[r] = "reserve"
  /\ Fail(r, ErrInsufficient)
  /\ tx' = [tx EXCEPT ![r].aborted = TRUE]
  /\ UNCHANGED <<env, ovVars, req, loc, minute, redisVars, dbVars>>

\* the steps of the handler of request r
HandlerStep(r) ==
  \/ Start(r) \/ IdemGet(r) \/ RateIncr(r) \/ RateExpire(r) \/ LockAcquire(r)
  \/ TxBegin(r) \/ SelectCart(r) \/ LoadItems(r) \/ SelectCoupon(r) \/ SelectUsage(r)
  \/ Redeem(r) \/ GetWarehouse(r) \/ ReserveItem(r) \/ Persist(r) \/ Commit(r)
  \/ Rollback(r) \/ PostCommit(r) \/ IdemPut(r) \/ Release(r)

\* the bodies of two users whose carts hold the same two products, loaded in
\* opposite orders, with and without the 10% coupon
LiveInputs ==
  {in \in [userID : Users, cartID : {"c1", "c2"}, items : {ItemsSent},
           coupon : {"WELCOME10", ""}, paymentRef : PaymentRefs] :
     in.userID = CartOwner[in.cartID]}

InitLive ==
  InitFrom([inputs |-> LiveInputs, faults |-> {}, faulty |-> {},
            used |-> 0, attempts |-> 0, region |-> SeededRegion], FALSE)

NextLive == Next \/ \E r \in Reqs : DeadlockAbort(r)

\* every handler that can take a step eventually takes one, and the store
\* eventually ends a deadlock
SpecLive ==
  /\ InitLive /\ [][NextLive]_vars
  /\ \A r \in Reqs : WF_vars(HandlerStep(r))
  /\ WF_vars(\E r \in Reqs : DeadlockAbort(r))

\* C34: every request that has arrived eventually returns, with the stored
\* response, a failure or its own success. Transactions do come to wait for
\* each other, only over inventory rows; the store then fails the statement of
\* one of them, which returns, and the other goes on.
C34_EveryRequestReturns ==
  /\ \A r \in Reqs : (pc[r] # "idle") ~> Done(r)
  /\ [](\A r \in Reqs : Deadlocked(r) => pc[r] = "reserve")

\* the store has just ended a deadlock: one transaction is on its way back with
\* the failure of its SELECT although there was stock for it, the other still
\* holds the inventory row it had locked and can go on
C34_Witness ==
  \E r \in Reqs : \E o \in Reqs \ {r} :
    /\ pc[r] = "rollback" /\ result[r].err = ErrInsufficient /\ ~InsufficientHolds(r)
    /\ tx[r].aborted
    /\ \E p \in Products : \E q \in Products \ {p} :
         /\ InventoryRow(p, WhEast) \in tx[r].locks
         /\ InventoryRow(q, WhEast) \in tx[o].locks
    /\ pc[o] = "reserve" /\ req[o].userID # req[r].userID

\* ------------------------------------------------------------------ the TypeScript CheckoutService
\* computeTax of the service: Math.round(amount * 0.08 * 100) / 100, the nearest
\* whole number of cents of 8% of the amount, a half going up
TsComputeTax(amount) == ((amount * 8 + 50 * Cent) \div (100 * Cent)) * Cent

\* checkout.service.ts:203  coupon.max_uses && coupon.used_count >= coupon.max_uses:
\* a max_uses of 0 is no cap
TsCouponAtCap(coupon) == coupon.max_uses # 0 /\ coupon.used_count >= coupon.max_uses

\* 3.5) the amounts of an order as the service computes them
TsPriceOf(items, discount) ==
  LET subtotal == SumSubtotal(items)
      tax == TsComputeTax(subtotal - discount)
      shipping == computeShipping(subtotal, Len(items)) IN
  [subtotal |-> subtotal, discount |-> discount, tax |-> tax, shipping |-> shipping,
   total |-> maxFloat(0, subtotal - discount + tax + shipping)]

\* the steps the service takes with the statements of the Go handler, one for
\* one, as long as none of their calls fails: validation of a body with items,
\* get, incr and expire, set NX PX 5000, BEGIN, the cart, the items, the usage
\* row and the redemption, the warehouse, the reservation, COMMIT and ROLLBACK
\* (checkout.service.ts:38-69, 88-132, 166-171, 207-288)
TsSameAsGo(r) ==
  \/ Start(r) \/ IdemGet(r) \/ RateIncr(r) \/ RateExpire(r) \/ LockAcquire(r)
  \/ TxBegin(r) \/ SelectCart(r) \/ LoadItems(r) \/ SelectUsage(r) \/ Redeem(r)
  \/ GetWarehouse(r) \/ ReserveItem(r) \/ Commit(r) \/ Rollback(r)

\* processCoupon of the service: the coupon row, the window and the cap; a
\* query that fails throws its own error
TsSelectCoupon(r) ==
  /\ pc[r] = "coupon"
  /\ LET k == req[r].coupon IN
     \/ /\ TRUE \in MayFail(r, "Query") /\ Fail(r, ErrStore)
        /\ UNCHANGED tx
     \/ /\ k \notin Coupons
        /\ Fail(r, ErrCouponInvalid)
        /\ UNCHANGED tx
     \/ /\ k \in Coupons
        /\ RowFree(r, CouponRow(k))
        /\ tx' = [tx EXCEPT ![r].locks = @ \cup {CouponRow(k)}]
        /\ IF CouponOutsideWindow(coupons[k], minute) \/ TsCouponAtCap(coupons[k])
           THEN Fail(r, ErrCouponInvalid)
           ELSE pc' = [pc EXCEPT ![r] = "usage"] /\ UNCHANGED result
  /\ UNCHANGED <<env, ovVars, req, loc, minute, redisVars, dbVars>>

\* 3.5) - 3.8) of the service: totals, createOrder, createOrderItems, the cart
\* closed, the event
TsPersist(r) ==
  /\ pc[r] = "persist"
  /\ LET items == loc[r].cartItems
         price == TsPriceOf(items, loc[r].discount) IN
     \/ /\ TRUE \in MayFail(r, "Exec") /\ Fail(r, ErrStore)
        /\ UNCHANGED <<tx, loc>>
     \/ /\ ~tx[r].aborted
        /\ tx' = [tx EXCEPT
                    ![r].order = {[id |-> r, user_id |-> req[r].userID, status |-> "pending",
                                   subtotal |-> Numeric2(price.subtotal),
                                   discount |-> Numeric2(price.discount),
                                   tax |-> Numeric2(price.tax),
                                   shipping |-> Numeric2(price.shipping),
                                   total |-> Numeric2(price.total)]},
                    ![r].items = {[order_id |-> r, product_id |-> items[i].product_id,
                                   qty |-> items[i].qty, unit_price |-> items[i].unit_price] :
                                     i \in 1..Len(items)},
                    ![r].closed = {req[r].cartID},
                    ![r].event = {[user_id |-> req[r].userID, type |-> "ORDER_CREATED",
                                   orderId |-> r, total |-> price.total,
                                   cartId |-> req[r].cartID]}]
        /\ loc' = [loc EXCEPT ![r].total = price.total]
        /\ pc' = [pc EXCEPT ![r] = "commit"]
        /\ UNCHANGED result
  /\ UNCHANGED <<env, ovVars, req, minute, redisVars, dbVars>>

\* 4) postCommitRedisOps of the service, called inside the try block of the
\* transaction: an awaited redis.keys that fails throws, the catch block sends
\* ROLLBACK to the committed transaction and throws again, and checkout leaves
\* through its finally block without the setex. The commands of the pipeline
\* report their errors in the result of exec, which is not looked at.
TsPostCommit(r) ==
  /\ pc[r] = "postcommit"
  /\ \E kFailed \in MayFail(r, "Keys"), dFailed \in MayFail(r, "DelKeys"),
        zFailed \in MayFail(r, "ZIncrBy"), xFailed \in MayFail(r, "XAdd") :
       IF kFailed
       THEN /\ result' = [result EXCEPT ![r] = ErrResult(ErrStore)]
            /\ pc' = [pc EXCEPT ![r] = "release"]
            /\ UNCHANGED <<summary, leaderboard, stream>>
       ELSE /\ summary' = IF dFailed THEN summary
                          ELSE [summary EXCEPT ![req[r].userID] = FALSE]
            /\ leaderboard' = IF zFailed THEN leaderboard
                              ELSE [leaderboard EXCEPT ![req[r].userID] = @ + loc[r].total]
            /\ stream' = IF xFailed THEN stream
                         ELSE stream \cup {[userId |-> req[r].userID, orderId |-> r,
                                            total |-> loc[r].total]}
            /\ result' = [result EXCEPT ![r] =
                            OkResult([orderId |-> r, status |-> "pending",
                                      total |-> loc[r].total])]
            /\ pc' = [pc EXCEPT ![r] = "idemput"]
  /\ UNCHANGED <<env, ovVars, req, loc, tx, minute, idem, rl, rlTTL, lock, dbVars>>

\* 5) await this.redis.setex(idempotencyKey, 600, JSON.stringify(result)): a
\* setex that fails throws, and checkout leaves through its finally block
TsIdemPut(r) ==
  /\ pc[r] = "idemput"
  /\ \E failed \in MayFail(r, "SetEx") :
       IF failed
       THEN /\ result' = [result EXCEPT ![r] = ErrResult(ErrStore)]
            /\ UNCHANGED idem
       ELSE /\ idem' = [idem EXCEPT ![req[r].paymentRef] = Marshal(result[r].resp)]
            /\ UNCHANGED result
  /\ pc' = [pc EXCEPT ![r] = "release"]
  /\ UNCHANGED <<env, ovVars, req, loc, tx, minute, rl, rlTTL, lock,
                 summary, leaderboard, stream, dbVars>>

\* finally { await this.redis.del(lockKey) }: a del that fails throws out of the
\* finally block, and its error takes the place of the result
TsRelease(r) ==
  /\ pc[r] = "release"
  /\ \E failed \in MayFail(r, "Del") :
       /\ lock' = IF failed \/ ~loc[r].locked THEN lock
                  ELSE [lock EXCEPT ![req[r].userID] = NoReq]
       /\ result' = IF failed THEN [result EXCEPT ![r] = ErrResult(ErrStore)] ELSE result
       /\ loc' = [loc EXCEPT ![r].released = loc[r].locked, ![r].lockLost = FALSE]
  /\ pc' = [pc EXCEPT ![r] = "done"]
  /\ UNCHANGED <<env, ovVars, req, tx, minute, idem, rl, rlTTL,
                 summary, leaderboard, stream, dbVars>>

\* the service with cached summaries, where for one request the calls after the
\* COMMIT may fail: the fan-out, the setex and the del
InitTs ==
  InitFrom([inputs |-> AllInputs, faults |-> FanoutCalls \cup {"SetEx", "Del"},
            faulty |-> FaultyReqs, used |-> 0, attempts |-> 0,
            region |-> SeededRegion], TRUE)

NextTs ==
  \/ \E r \in Reqs :
       \/ TsSameAsGo(r)
       \/ TsSelectCoupon(r)
       \/ TsPersist(r)
       \/ TsPostCommit(r)
       \/ TsIdemPut(r)
       \/ TsRelease(r)
  \/ \E u \in Users : LockExpire(u)

SpecTs == InitTs /\ [][NextTs]_vars

\* ------------------------------------------------------------------ C35
\* C35: a request of the service whose transaction has committed ends with the
\* success result, whatever became of the fan-out, of the setex and of the del.
C35_CommittedReturnsSuccess ==
  \A r \in Reqs : (Done(r) /\ loc[r].committed) => Succeeded(r)

\* ------------------------------------------------------------------ C36
RECURSIVE UsageTotal(_, _)
\* the sum of user_coupon_usage.used_count of coupon k over the users us
UsageTotal(us, k) ==
  IF us = {} THEN 0
  ELSE LET u == CHOOSE x \in us : TRUE IN usage[<<u, k>>] + UsageTotal(us \ {u}, k)

RECURSIVE QtyTotal(_)
\* the sum of qty over a set of order items
QtyTotal(items) ==
  IF items = {} THEN 0
  ELSE LET i == CHOOSE x \in items : TRUE IN i.qty + QtyTotal(items \ {i})

\* the order items of product p of the orders whose user resolves to warehouse w
ItemsServedFrom(p, w) ==
  {i \in order_items :
     /\ i.product_id = p
     /\ \E o \in orders : o.id = i.order_id /\ WarehouseOf(UserRegion[o.user_id]) = w}

\* C37: in every state and for every inventory row, reserved_qty less its
\* initial value is the sum of qty over the order items of that product of the
\* orders whose user resolves to the warehouse of the row; a request that was
\* refused or whose transaction did not commit has no order item and adds
\* nothing.
C37_ReservedMatchesOrderItems ==
  \A row \in InvRows :
    inventory[row].reserved_qty - InitInventory[row].reserved_qty
      = QtyTotal(ItemsServedFrom(row[1], row[2]))

\* two users' checkouts of the same product committed, one served from the
\* us-east and one from the us-west warehouse, while nothing of a third row was
\* ordered
C37_Witness ==
  \E r \in Reqs : \E o \in Reqs \ {r} :
    /\ loc[r].committed /\ loc[o].committed
    /\ WarehouseOf(UserRegion[req[r].userID]) = WhEast
    /\ WarehouseOf(UserRegion[req[o].userID]) = WhWest
    /\ inventory[<<"pA", WhEast>>].reserved_qty = QtyInCart(req[r].cartID, "pA")
    /\ inventory[<<"pA", WhWest>>].reserved_qty = QtyInCart(req[o].cartID, "pA")
    /\ QtyInCart(req[r].cartID, "pB") = 0
    /\ inventory[<<"pB", WhEast>>] = InitInventory[<<"pB", WhEast>>]

\* ------------------------------------------------------------------ C38
\* the caps a coupons row may carry: the default of the column and a cap the
\* run does not reach
CapsOfCoupon == {0, MaxUses}

\* the service on the carts of PricingInputs, no call failing, for either cap
\* of the coupons
InitEquiv ==
  \E cap \in CapsOfCoupon :
    /\ env = [inputs |-> PricingInputs, faults |-> {}, faulty |-> {},
              used |-> 0, attempts |-> 0, region |-> SeededRegion]
    /\ pc = [r \in Reqs |-> "idle"]
    /\ req = [r \in Reqs |-> NoRequest]
    /\ loc = [r \in Reqs |-> NoLoc]
    /\ result = [r \in Reqs |-> NoResult]
    /\ tx = [r \in Reqs |-> NoTx]
    /\ minute = 0
    /\ idem = [p \in PaymentRefs |-> NoValue]
    /\ rl = [k \in Users \X Minutes |-> 0]
    /\ rlTTL = [k \in Users \X Minutes |-> FALSE]
    /\ lock = [u \in Users |-> NoReq]
    /\ summary = [u \in Users |-> FALSE]
    /\ summaryVal = [u \in Users |-> NoValue]
    /\ ov = [u \in Users |-> NoOverview]
    /\ leaderboard = [u \in Users |-> 0]
    /\ stream = {}
    /\ carts = [c \in Carts |-> "open"]
    /\ coupons = [k \in Coupons |-> [InitCoupons(0)[k] EXCEPT !.max_uses = cap]]
    /\ usage = InitUsage({})
    /\ inventory = InitInventory
    /\ orders = {}
    /\ order_items = {}
    /\ events = {}

SpecEquiv == InitEquiv /\ [][NextTs]_vars

\* the coupons rows before the first checkout: a checkout writes used_count only
CouponsBefore == [k \in Coupons |-> [coupons[k] EXCEPT !.used_count = env.used]]

\* executeCheckoutTransaction of the Go handler for the user u, the cart c and
\* the coupon k, run alone on the store of the start with the coupons rows
\* before: the error it returns ("" when it commits) and the amounts it computes
GoOutcome(u, c, k, before) ==
  LET rows == CartItemRows[c]
      w == WarehouseOf(UserRegion[u])
      d == IF k = NoCoupon THEN 0 ELSE CouponDiscount(before[k], SumSubtotal(rows))
      err == IF CartOwner[c] # u THEN ErrCartInvalid
             ELSE IF rows = << >> THEN ErrCartEmpty
             ELSE IF k # NoCoupon /\ k \notin Coupons THEN ErrCouponInvalid
             ELSE IF k # NoCoupon /\ (CouponOutsideWindow(before[k], 0) \/ CouponAtCap(before[k]))
                  THEN ErrCouponInvalid
             ELSE IF \E i \in 1..Len(rows) :
                       InitInventory[<<rows[i].product_id, w>>].available_qty
                         - InitInventory[<<rows[i].product_id, w>>].reserved_qty < rows[i].qty
                  THEN ErrInsufficient
             ELSE "" IN
  [err |-> err, price |-> IF err = "" THEN PriceOf(rows, d) ELSE PriceOf(<< >>, 0)]

\* C38 as stated: the first request, run alone, ends as the Go handler ends on
\* the same body and the same store: the same error or the same success with the
\* same total, the same orders row (subtotal, discount, tax, shipping, total),
\* the same coupons rows and the same carts
C38_SameAsGoHandler ==
  \A r \in Reqs :
    Alone(r) =>
      LET u == req[r].userID
          c == req[r].cartID
          k == req[r].coupon
          go == GoOutcome(u, c, k, CouponsBefore) IN
      IF go.err # ""
      THEN /\ result[r] = ErrResult(go.err)
           /\ orders = {}
           /\ coupons = CouponsBefore
           /\ carts = [x \in Carts |-> "open"]
      ELSE /\ result[r] = OkResult([orderId |-> r, status |-> "pending",
                                    total |-> go.price.total])
           /\ orders = {[id |-> r, user_id |-> u, status |-> "pending",
                         subtotal |-> Numeric2(go.price.subtotal),
                         discount |-> Numeric2(go.price.discount),
                         tax |-> Numeric2(go.price.tax),
                         shipping |-> Numeric2(go.price.shipping),
                         total |-> Numeric2(go.price.total)]}
           /\ coupons = [x \in Coupons |->
                           IF x = k THEN [CouponsBefore[x] EXCEPT !.used_count = @ + 1]
                           ELSE CouponsBefore[x]]
           /\ carts = [x \in Carts |-> IF x = c THEN "closed" ELSE "open"]

\* ------------------------------------------------------------------ GetUserOverview
\* the GetUserOverview requests a user makes in a run
MaxOverviews == 2

\* the users who ask for their overview in a run
Viewers == {"u1"}

\* the request arrives and finds its user (user_overview.go:69-99); the metrics
\* keys the handler writes are read by no handler
OvStart(u) ==
  /\ ov[u].pc = "idle"
  /\ ov[u].served < MaxOverviews
  /\ ov' = [ov EXCEPT ![u].pc = "get"]
  /\ UNCHANGED <<env, procVars, minute, redisVars, dbVars, summaryVal>>

\* 2) Get of the summary key: a value found is the response, else the handler
\* goes on to the reads of the database
OvGetSummary(u) ==
  /\ ov[u].pc = "get"
  /\ ov' = IF summary[u] THEN [ov EXCEPT ![u] = [NoOverview EXCEPT !.served = ov[u].served + 1]]
           ELSE [ov EXCEPT ![u].pc = "orders"]
  /\ UNCHANGED <<env, procVars, minute, redisVars, dbVars, summaryVal>>

\* 3) getRecentOrders: the committed orders of the user that have order items
OvOrders(u) ==
  /\ ov[u].pc = "orders"
  /\ ov' = [ov EXCEPT ![u].pc = "cart",
                      ![u].orders = {o.id : o \in {x \in orders :
                                        /\ x.user_id = u
                                        /\ \E oi \in order_items : oi.order_id = x.id}}]
  /\ UNCHANGED <<env, procVars, minute, redisVars, dbVars, summaryVal>>

\* getCurrentCart: one open cart of the user (LIMIT 1 with no ORDER BY takes
\* any of them), or none
OvCart(u) ==
  /\ ov[u].pc = "cart"
  /\ LET open == {c \in Carts : CartOwner[c] = u /\ carts[c] = "open"} IN
     \E c \in (IF open = {} THEN {""} ELSE open) :
       ov' = [ov EXCEPT ![u].pc = "products", ![u].cart = c]
  /\ UNCHANGED <<env, procVars, minute, redisVars, dbVars, summaryVal>>

\* getRecommendedProducts: SUM(available_qty - reserved_qty) of each product
\* over its inventory rows
OvProducts(u) ==
  /\ ov[u].pc = "products"
  /\ ov' = [ov EXCEPT ![u].pc = "store",
                      ![u].products =
                        [p \in Products |->
                           inventory[<<p, WhEast>>].available_qty
                             - inventory[<<p, WhEast>>].reserved_qty
                             + inventory[<<p, WhWest>>].available_qty
                             - inventory[<<p, WhWest>>].reserved_qty]]
  /\ UNCHANGED <<env, procVars, minute, redisVars, dbVars, summaryVal>>

\* 5) SetEx of the summary key with the response computed, 30s
OvStore(u) ==
  /\ ov[u].pc = "store"
  /\ summary' = [summary EXCEPT ![u] = TRUE]
  /\ summaryVal' = [summaryVal EXCEPT ![u] =
                      [orders |-> ov[u].orders, cart |-> ov[u].cart,
                       products |-> ov[u].products]]
  /\ ov' = [ov EXCEPT ![u] = [NoOverview EXCEPT !.served = ov[u].served + 1]]
  /\ UNCHANGED <<env, procVars, minute, idem, rl, rlTTL, lock, leaderboard, stream, dbVars>>

\* the 30s TTL of a summary key runs out
SummaryExpire(u) ==
  /\ summary[u]
  /\ summary' = [summary EXCEPT ![u] = FALSE]
  /\ UNCHANGED <<env, procVars, minute, idem, rl, rlTTL, lock, leaderboard, stream, dbVars,
                 ovVars>>

\* the bodies of one user's checkouts of one cart, with and without a coupon
OverviewInputs ==
  {in \in AllInputs : in.userID = "u1" /\ in.cartID = "c1"}

\* one user's checkouts, no call failing, beside the GetUserOverview requests
\* of the users
InitOverview ==
  InitFrom([inputs |-> OverviewInputs, faults |-> {}, faulty |-> {},
            used |-> 0, attempts |-> 0, region |-> SeededRegion], FALSE)

NextOverview ==
  \/ Next
  \/ \E u \in Viewers :
       \/ OvStart(u)
       \/ OvGetSummary(u)
       \/ OvOrders(u)
       \/ OvCart(u)
       \/ OvProducts(u)
       \/ OvStore(u)
       \/ SummaryExpire(u)

SpecOverview == InitOverview /\ [][NextOverview]_vars

\* ------------------------------------------------------------------ C39
\* C39 as stated: once a checkout has committed and its fan-out has deleted the
\* summary keys of its user, a summary key of that user that exists holds a value
\* computed after the commit: the order of the checkout is among its orders.
C39_NoStaleSummary ==
  \A r \in Reqs :
    (loc[r].committed /\ pc[r] \in {"idemput", "release", "done"}) =>
      (summary[req[r].userID] => r \in summaryVal[req[r].userID].orders)

====
